---- MODULE Spec2Model ----
(***************************************************************************)
(* Model of ccsess2mdbook: the turn segmenter (converter.ts) and the page  *)
(* partitioner (renderer.ts).  A session log is a list of records; the     *)
(* segmenter groups its user/assistant records into turns, and the         *)
(* partitioner splits every turn into user, text and tool pages.           *)
(*                                                                         *)
(* Strings are sequences of one-character strings, so that trim() is       *)
(* computed and not assumed.  A record's uuid is its position in the log.  *)
(***************************************************************************)
EXTENDS Integers, Sequences, FiniteSets, TLC

\* ------------------------------------------------------------------------
\* Bounds
\* ------------------------------------------------------------------------
MaxEntries == 4      \* longest record list handed to extractConversationTurns
MaxMsgs == 3         \* most messages over all turns handed to convertTurnsToPages
MaxTurns == 2        \* most turns handed to convertTurnsToPages

\* ------------------------------------------------------------------------
\* Strings
\* ------------------------------------------------------------------------
IsWhitespace(c) == c \in {" ", "\n", "\t"}

RECURSIVE TrimStart(_)
TrimStart(s) ==
    IF s = <<>> THEN <<>>
    ELSE IF IsWhitespace(Head(s)) THEN TrimStart(Tail(s))
    ELSE s

RECURSIVE TrimEnd(_)
TrimEnd(s) ==
    IF s = <<>> THEN <<>>
    ELSE IF IsWhitespace(s[Len(s)]) THEN TrimEnd(SubSeq(s, 1, Len(s) - 1))
    ELSE s

\* String.prototype.trim
Trim(s) == TrimEnd(TrimStart(s))

\* ------------------------------------------------------------------------
\* Record model (types.ts)
\* ------------------------------------------------------------------------
TextBlock(t) == [type |-> "text", text |-> t, id |-> 0]
ThinkingBlock == [type |-> "thinking", text |-> <<>>, id |-> 0]
ToolUseBlock(i) == [type |-> "tool_use", text |-> <<>>, id |-> i]
ToolResultBlock(i) == [type |-> "tool_result", text |-> <<>>, id |-> i]

\* message.content: string | ContentBlock[]
StringContent(t) == [isString |-> TRUE, text |-> t, blocks |-> <<>>]
BlockContent(bs) == [isString |-> FALSE, text |-> <<>>, blocks |-> bs]

UserMessage(u, c) == [type |-> "user", uuid |-> u, content |-> c]
AssistantMessage(u, bs) == [type |-> "assistant", uuid |-> u, content |-> BlockContent(bs)]
FileHistorySnapshot(u) == [type |-> "file-history-snapshot", uuid |-> u, content |-> BlockContent(<<>>)]
SummaryEntry(u) == [type |-> "summary", uuid |-> u, content |-> BlockContent(<<>>)]

\* The contents the user record at position u can carry: plain strings
\* that are blank or not, and block lists that put tool results and blank
\* text before narrative text.  A tool result names the invocation of an
\* earlier record.
UserContents(u) ==
    { StringContent(<<"a">>),
      StringContent(<<" ">>),
      BlockContent(<<ToolResultBlock(u - 1)>>),
      BlockContent(<<ToolResultBlock(u - 1), ToolResultBlock(u - 2)>>),
      BlockContent(<<ToolResultBlock(u - 1), TextBlock(<<"a">>)>>),
      BlockContent(<<TextBlock(<<" ">>), TextBlock(<<"a">>)>>) }

\* The block lists the assistant record at position u can carry.
AssistantContents(u) ==
    { <<TextBlock(<<"a">>)>>,
      <<ThinkingBlock, TextBlock(<<"a">>)>>,
      <<ToolUseBlock(u)>>,
      <<ThinkingBlock>>,
      <<>>,
      <<ToolResultBlock(u - 1)>> }

Option(x) == <<x>>
Null == <<>>

VARIABLES
    pc,            \* position of the program
    entries,       \* argument of extractConversationTurns
    messages,      \* extractConversationTurns: the filtered records
    msgPos,        \* extractConversationTurns: index of the next record of the loop
    currentTurn,   \* extractConversationTurns: Null or Option(turn)
    turnIndex,     \* extractConversationTurns: the turn counter
    turns,         \* extractConversationTurns: the result list
    pturns,        \* argument of convertTurnsToPages
    turnPos,       \* convertTurnsToPages: index of the next turn of the outer loop
    pmsgPos,       \* convertTurnsToPages: index of the next message of the inner loop
    pages,         \* convertTurnsToPages: pages of the turn at hand
    pageIndex,     \* convertTurnsToPages: the page counter of the turn at hand
    currentToolPage,     \* convertTurnsToPages: Null or Option(tool page)
    currentInteraction,  \* convertTurnsToPages: Null or Option(interaction)
    result,        \* convertTurnsToPages: the result list
    toolUseMap,    \* buildToolUseMap: the map, a function from ids to blocks
    mapTurnPos,    \* buildToolUseMap: index of the next turn of the outer loop
    mapMsgPos,     \* buildToolUseMap: index of the next message of the inner loop
    fileText,      \* parseSessionFile: the characters of the file
    readPos,       \* parseSessionFile: how many of them the reader has delivered
    buffer,        \* parseSessionFile: the text read and not yet split off
    yielded,       \* parseSessionFile: the records yielded so far
    inputFiles,    \* main: the text of each input file
    loadedSessions,  \* loadAndMergeSessionFiles: the loaded sources
    seenUuids,     \* loadAndMergeSessionFiles: the keys seen so far
    merged,        \* loadAndMergeSessionFiles: the merged records
    sessionPos,    \* loadAndMergeSessionFiles: index of the next source of the merge loop
    entryPos,      \* loadAndMergeSessionFiles: index of the next record of that source
    dirCreated,    \* main: the output directory exists
    written,       \* main: the names of the files written, in order
    exitCode,      \* main: Null while running, then Option(code)
    firstResult,   \* Null, or Option(the result of an earlier call)
    callArg,       \* the argument of a function called on its own
    callRet        \* Null, or Option(the value that call returned)

segVars == <<entries, messages, msgPos, currentTurn, turnIndex, turns>>

pageVars == <<pturns, turnPos, pmsgPos, pages, pageIndex, currentToolPage,
              currentInteraction, result>>

mapVars == <<toolUseMap, mapTurnPos, mapMsgPos>>

parseVars == <<fileText, readPos, buffer, yielded>>

mergeVars == <<loadedSessions, seenUuids, merged, sessionPos, entryPos>>

mainVars == <<inputFiles, dirCreated, written, exitCode>>

restVars == <<mapVars, parseVars, mergeVars, mainVars, firstResult, callArg, callRet>>

vars == <<pc, segVars, pageVars, restVars>>

\* The variables of the functions a specification does not run.
InitRest ==
    /\ toolUseMap = <<>>
    /\ mapTurnPos = 1
    /\ mapMsgPos = 1
    /\ fileText = <<>>
    /\ readPos = 0
    /\ buffer = <<>>
    /\ yielded = <<>>
    /\ inputFiles = <<>>
    /\ loadedSessions = <<>>
    /\ seenUuids = {}
    /\ merged = <<>>
    /\ sessionPos = 1
    /\ entryPos = 1
    /\ dirCreated = FALSE
    /\ written = <<>>
    /\ exitCode = <<>>
    /\ firstResult = <<>>
    /\ callArg = <<>>
    /\ callRet = <<>>

\* ------------------------------------------------------------------------
\* converter.ts
\* ------------------------------------------------------------------------
isUserMessage(entry) == entry.type = "user"

isAssistantMessage(entry) == entry.type = "assistant"

RECURSIVE AnyNonBlankText(_)
AnyNonBlankText(blocks) ==
    IF blocks = <<>> THEN FALSE
    ELSE IF Head(blocks).type = "text" /\ Len(Trim(Head(blocks).text)) > 0 THEN TRUE
    ELSE AnyNonBlankText(Tail(blocks))

\* every user record opens a turn
userMessageHasTextAlways(user) == TRUE

\* only the first block is looked at
userMessageHasTextFirstBlock(user) ==
    IF user.content.isString
    THEN Len(Trim(user.content.text)) > 0
    ELSE /\ user.content.blocks # <<>>
         /\ Head(user.content.blocks).type = "text"
         /\ Len(Trim(Head(user.content.blocks).text)) > 0

userMessageHasText(user) ==
    IF user.content.isString
    THEN Len(Trim(user.content.text)) > 0
    ELSE AnyNonBlankText(user.content.blocks)

\* renderer.ts: the text of the first text block, or the string itself
RECURSIVE FirstTextBlockText(_)
FirstTextBlockText(blocks) ==
    IF blocks = <<>> THEN <<>>
    ELSE IF Head(blocks).type = "text" THEN Head(blocks).text
    ELSE FirstTextBlockText(Tail(blocks))

extractUserText(user) ==
    IF user.content.isString
    THEN user.content.text
    ELSE FirstTextBlockText(user.content.blocks)

\* The turn a text-bearing user record opens
NewTurnZeroBased(idx, msg) == [index |-> idx - 1, messages |-> <<msg>>]

NewTurn(idx, msg) == [index |-> idx, messages |-> <<msg>>]

\* The test that guards turns.push when a new turn starts
PushBeforeNewTurnNeedsReply(ct) == ct # Null /\ Len(ct[1].messages) > 1

PushBeforeNewTurn(ct) == ct # Null /\ Len(ct[1].messages) > 0

\* The test that guards turns.push after the loop
PushLastTurnNeedsReply(ct) == ct # Null /\ Len(ct[1].messages) > 1

PushLastTurn(ct) == ct # Null /\ Len(ct[1].messages) > 0

Init ==
    /\ pc = "input"
    /\ entries = <<>>
    /\ messages = <<>>
    /\ msgPos = 1
    /\ currentTurn = Null
    /\ turnIndex = 1
    /\ turns = <<>>
    /\ pturns = <<>>
    /\ turnPos = 1
    /\ pmsgPos = 1
    /\ pages = <<>>
    /\ pageIndex = 1
    /\ currentToolPage = Null
    /\ currentInteraction = Null
    /\ result = <<>>
    /\ InitRest

\* The records a log can hold at position u.  The segmenter never reads
\* the blocks of an assistant record, so two kinds of them are enough.
SessionEntries(u) ==
    { UserMessage(u, c) : c \in UserContents(u) }
    \cup { AssistantMessage(u, bs) : bs \in {<<TextBlock(<<"a">>)>>, <<ToolUseBlock(u)>>} }
    \cup { FileHistorySnapshot(u), SummaryEntry(u) }

\* The caller builds the record list, one record at a time.
AddEntry ==
    /\ pc = "input"
    /\ Len(entries) < MaxEntries
    /\ \E e \in SessionEntries(Len(entries) + 1) : entries' = Append(entries, e)
    /\ UNCHANGED <<pc, messages, msgPos, currentTurn, turnIndex, turns, pageVars>>
    /\ UNCHANGED restVars

\* extractConversationTurns, entry: filter the records and set up the loop.
SegmentStart ==
    /\ pc = "input"
    /\ pc' = "segment"
    /\ messages' = SelectSeq(entries, LAMBDA e : isUserMessage(e) \/ isAssistantMessage(e))
    /\ msgPos' = 1
    /\ currentTurn' = Null
    /\ turnIndex' = 1
    /\ turns' = <<>>
    /\ UNCHANGED <<entries, pageVars>>
    /\ UNCHANGED restVars

\* One iteration of the loop, on a user record with text.
SegmentUserText ==
    /\ pc = "segment"
    /\ msgPos <= Len(messages)
    /\ LET msg == messages[msgPos] IN
        /\ isUserMessage(msg)
        /\ userMessageHasText(msg)
        /\ turns' = IF PushBeforeNewTurn(currentTurn)
                    THEN Append(turns, currentTurn[1])
                    ELSE turns
        /\ currentTurn' = Option(NewTurn(turnIndex, msg))
        /\ turnIndex' = turnIndex + 1
    /\ msgPos' = msgPos + 1
    /\ UNCHANGED <<pc, entries, messages, pageVars>>
    /\ UNCHANGED restVars

\* One iteration of the loop, on a user record without text.
SegmentUserNoText ==
    /\ pc = "segment"
    /\ msgPos <= Len(messages)
    /\ LET msg == messages[msgPos] IN
        /\ isUserMessage(msg)
        /\ ~userMessageHasText(msg)
        /\ currentTurn' = IF currentTurn # Null
                          THEN Option([currentTurn[1] EXCEPT !.messages = Append(@, msg)])
                          ELSE currentTurn
    /\ msgPos' = msgPos + 1
    /\ UNCHANGED <<pc, entries, messages, turnIndex, turns, pageVars>>
    /\ UNCHANGED restVars

\* One iteration of the loop, on an assistant record.
SegmentAssistant ==
    /\ pc = "segment"
    /\ msgPos <= Len(messages)
    /\ LET msg == messages[msgPos] IN
        /\ ~isUserMessage(msg)
        /\ currentTurn' = IF isAssistantMessage(msg) /\ currentTurn # Null
                          THEN Option([currentTurn[1] EXCEPT !.messages = Append(@, msg)])
                          ELSE currentTurn
    /\ msgPos' = msgPos + 1
    /\ UNCHANGED <<pc, entries, messages, turnIndex, turns, pageVars>>
    /\ UNCHANGED restVars

\* After the loop: push the last turn and return.
SegmentFinish ==
    /\ pc = "segment"
    /\ msgPos > Len(messages)
    /\ turns' = IF PushLastTurn(currentTurn)
                THEN Append(turns, currentTurn[1])
                ELSE turns
    /\ pc' = "segmented"
    /\ UNCHANGED <<entries, messages, msgPos, currentTurn, turnIndex, pageVars>>
    /\ UNCHANGED restVars

NextSegment ==
    \/ AddEntry
    \/ SegmentStart
    \/ SegmentUserText
    \/ SegmentUserNoText
    \/ SegmentAssistant
    \/ SegmentFinish

Next == NextSegment

Spec == Init /\ [][Next]_vars

\* ------------------------------------------------------------------------
\* renderer.ts: convertTurnsToPages
\* ------------------------------------------------------------------------
UserPage(t, p, msg) == [type |-> "user", turnIndex |-> t, pageIndex |-> p, user |-> msg]

TextPage(t, p, msg) == [type |-> "text", turnIndex |-> t, pageIndex |-> p, assistant |-> msg]

ToolPage(t, p) == [type |-> "tool", turnIndex |-> t, pageIndex |-> p, interactions |-> <<>>]

ToolInteraction(msg) == [toolUse |-> msg, toolResults |-> <<>>]

\* the first block decides, thinking or not
assistantStartsWithTextFirstBlock(assistant) ==
    LET content == assistant.content.blocks IN
    content # <<>> /\ Head(content).type = "text"

RECURSIVE FirstNonThinkingIsText(_)
FirstNonThinkingIsText(content) ==
    IF content = <<>> THEN FALSE
    ELSE IF Head(content).type = "thinking" THEN FirstNonThinkingIsText(Tail(content))
    ELSE Head(content).type = "text"

assistantStartsWithText(assistant) ==
    LET content == assistant.content.blocks IN
    IF Len(content) = 0 THEN FALSE ELSE FirstNonThinkingIsText(content)

\* the results come out last block first
extractToolResultsReversed(user) ==
    LET rs == IF user.content.isString THEN <<>>
              ELSE SelectSeq(user.content.blocks, LAMBDA b : b.type = "tool_result")
    IN  [i \in 1..Len(rs) |-> rs[Len(rs) + 1 - i]]

extractToolResults(user) ==
    IF user.content.isString THEN <<>>
    ELSE SelectSeq(user.content.blocks, LAMBDA b : b.type = "tool_result")

\* flushToolPage leaving the interaction open after pushing it
flushToolPageKeepsInteraction(pgs, tp, ci) ==
    LET tp1 == IF ci # Null /\ tp # Null
               THEN Option([tp[1] EXCEPT !.interactions = Append(@, ci[1])])
               ELSE tp
    IN  IF tp1 # Null /\ Len(tp1[1].interactions) > 0
        THEN [pages |-> Append(pgs, tp1[1]), toolPage |-> Null, interaction |-> ci]
        ELSE [pages |-> pgs, toolPage |-> tp1, interaction |-> ci]

\* flushToolPage forgetting the open interaction instead of pushing it
flushToolPageDropsInteraction(pgs, tp, ci) ==
    IF tp # Null /\ Len(tp[1].interactions) > 0
    THEN [pages |-> Append(pgs, tp[1]), toolPage |-> Null, interaction |-> Null]
    ELSE [pages |-> pgs, toolPage |-> Null, interaction |-> Null]

\* flushToolPage: the pages, the open tool page and the open interaction
\* after the call
flushToolPage(pgs, tp, ci) ==
    LET tp1 == IF ci # Null /\ tp # Null
               THEN Option([tp[1] EXCEPT !.interactions = Append(@, ci[1])])
               ELSE tp
        ci1 == IF ci # Null /\ tp # Null THEN Null ELSE ci
    IN  IF tp1 # Null /\ Len(tp1[1].interactions) > 0
        THEN [pages |-> Append(pgs, tp1[1]), toolPage |-> Null, interaction |-> ci1]
        ELSE [pages |-> pgs, toolPage |-> tp1, interaction |-> ci1]

\* every tool-starting record opens a tool page of its own
OpenToolPageAlways(tp, t, p) ==
    [toolPage |-> Option(ToolPage(t, p)), pageIndex |-> p + 1]

\* opening a tool page does not consume a page index
OpenToolPageNoAdvance(tp, t, p) ==
    IF tp = Null
    THEN [toolPage |-> Option(ToolPage(t, p)), pageIndex |-> p]
    ELSE [toolPage |-> tp, pageIndex |-> p]

\* "Create new tool page if needed": the open tool page and the page
\* counter after it
OpenToolPage(tp, t, p) ==
    IF tp = Null
    THEN [toolPage |-> Option(ToolPage(t, p)), pageIndex |-> p + 1]
    ELSE [toolPage |-> tp, pageIndex |-> p]

\* Title derivation
TitleLimit == 50

\* The backquote character, which a string of the model cannot hold as such
Backquote == "backquote"

StripChars == {"#", "[", "]", Backquote, "*", "_"}

RECURSIVE NewlinesToSpaces(_)
NewlinesToSpaces(s) ==
    IF s = <<>> THEN <<>>
    ELSE <<IF Head(s) = "\n" THEN " " ELSE Head(s)>> \o NewlinesToSpaces(Tail(s))

Slice(s, n) == SubSeq(s, 1, IF Len(s) < n THEN Len(s) ELSE n)

DigitChar(d) == <<"0", "1", "2", "3", "4", "5", "6", "7", "8", "9">>[d + 1]

RECURSIVE ToDecimal(_)
ToDecimal(n) ==
    IF n < 10 THEN <<DigitChar(n)>>
    ELSE ToDecimal(n \div 10) \o <<DigitChar(n % 10)>>

RECURSIVE extractFirstUserText(_)
extractFirstUserText(msgs) ==
    IF msgs = <<>> THEN <<>>
    ELSE IF Head(msgs).type = "user" /\ Len(Trim(extractUserText(Head(msgs)))) > 0
         THEN extractUserText(Head(msgs))
         ELSE extractFirstUserText(Tail(msgs))

\* getTurnTitle cutting to the limit before it trims
getTurnTitleCutsFirst(turn) ==
    LET userContent == extractFirstUserText(turn.messages)
        title == Trim(Slice(SelectSeq(NewlinesToSpaces(userContent),
                                      LAMBDA c : c \notin StripChars), TitleLimit))
    IN  IF title # <<>> THEN title
        ELSE <<"T", "u", "r", "n", " ">> \o ToDecimal(turn.index)

getTurnTitle(turn) ==
    LET userContent == extractFirstUserText(turn.messages)
        title == Slice(Trim(SelectSeq(NewlinesToSpaces(userContent),
                                      LAMBDA c : c \notin StripChars)), TitleLimit)
    IN  IF title # <<>> THEN title
        ELSE <<"T", "u", "r", "n", " ">> \o ToDecimal(turn.index)

\* The messages a caller can put in a turn at position u.
TurnMessages(u) ==
    { UserMessage(u, c) : c \in
        { StringContent(<<"a">>),
          BlockContent(<<ToolResultBlock(u - 1), ToolResultBlock(u - 2)>>),
          BlockContent(<<ToolResultBlock(u - 1), TextBlock(<<"a">>)>>),
          BlockContent(<<TextBlock(<<" ">>), TextBlock(<<"a">>)>>) } }
    \cup { AssistantMessage(u, bs) : bs \in AssistantContents(u) }

RECURSIVE CountMessages(_)
CountMessages(ts) ==
    IF ts = <<>> THEN 0 ELSE Len(Head(ts).messages) + CountMessages(Tail(ts))

InitPages ==
    /\ pc = "turns_input"
    /\ entries = <<>>
    /\ messages = <<>>
    /\ msgPos = 1
    /\ currentTurn = Null
    /\ turnIndex = 1
    /\ turns = <<>>
    /\ pturns = <<>>
    /\ turnPos = 1
    /\ pmsgPos = 1
    /\ pages = <<>>
    /\ pageIndex = 1
    /\ currentToolPage = Null
    /\ currentInteraction = Null
    /\ result = <<>>
    /\ InitRest

\* The caller builds the turn list: it opens a turn ...
AddTurn ==
    /\ pc = "turns_input"
    /\ Len(pturns) < MaxTurns
    /\ pturns' = Append(pturns, [index |-> Len(pturns) + 1, messages |-> <<>>])
    /\ UNCHANGED <<pc, segVars, turnPos, pmsgPos, pages, pageIndex,
                   currentToolPage, currentInteraction, result>>
    /\ UNCHANGED restVars

\* ... or puts one more message in the last turn.
AddMessage ==
    /\ pc = "turns_input"
    /\ pturns # <<>>
    /\ CountMessages(pturns) < MaxMsgs
    /\ \E m \in TurnMessages(CountMessages(pturns) + 1) :
          pturns' = [pturns EXCEPT ![Len(pturns)].messages = Append(@, m)]
    /\ UNCHANGED <<pc, segVars, turnPos, pmsgPos, pages, pageIndex,
                   currentToolPage, currentInteraction, result>>
    /\ UNCHANGED restVars

\* convertTurnsToPages, entry
PagesStart ==
    /\ pc = "turns_input"
    /\ pc' = "page_turns"
    /\ result' = <<>>
    /\ turnPos' = 1
    /\ UNCHANGED <<segVars, pturns, pmsgPos, pages, pageIndex,
                   currentToolPage, currentInteraction>>
    /\ UNCHANGED restVars

\* The outer loop with a page counter that outlives the turn and the call
PagesTurnStartKeepsCounter ==
    /\ pc = "page_turns"
    /\ turnPos <= Len(pturns)
    /\ pc' = "page_messages"
    /\ pages' = <<>>
    /\ currentToolPage' = Null
    /\ currentInteraction' = Null
    /\ pmsgPos' = 1
    /\ UNCHANGED <<segVars, pturns, turnPos, result, pageIndex>>
    /\ UNCHANGED restVars

\* The outer loop takes the next turn and resets the per-turn state.
PagesTurnStart ==
    /\ pc = "page_turns"
    /\ turnPos <= Len(pturns)
    /\ pc' = "page_messages"
    /\ pages' = <<>>
    /\ pageIndex' = 1
    /\ currentToolPage' = Null
    /\ currentInteraction' = Null
    /\ pmsgPos' = 1
    /\ UNCHANGED <<segVars, pturns, turnPos, result>>
    /\ UNCHANGED restVars

InPageLoop ==
    /\ pc = "page_messages"
    /\ pmsgPos <= Len(pturns[turnPos].messages)

\* One iteration of the inner loop, on a user record with text.
PageUserText ==
    /\ InPageLoop
    /\ LET turn == pturns[turnPos]
           msg == turn.messages[pmsgPos]
           f == flushToolPage(pages, currentToolPage, currentInteraction)
       IN  /\ msg.type = "user"
           /\ Len(Trim(extractUserText(msg))) > 0
           /\ pages' = Append(f.pages, UserPage(turn.index, pageIndex, msg))
           /\ currentToolPage' = f.toolPage
           /\ currentInteraction' = f.interaction
           /\ pageIndex' = pageIndex + 1
    /\ pmsgPos' = pmsgPos + 1
    /\ UNCHANGED <<pc, segVars, pturns, turnPos, result>>
    /\ UNCHANGED restVars

\* One iteration of the inner loop, on a user record without text.
PageUserNoText ==
    /\ InPageLoop
    /\ LET msg == pturns[turnPos].messages[pmsgPos]
           toolResults == extractToolResults(msg)
       IN  /\ msg.type = "user"
           /\ ~(Len(Trim(extractUserText(msg))) > 0)
           /\ currentInteraction' =
                IF currentInteraction # Null
                THEN Option([currentInteraction[1] EXCEPT
                                !.toolResults = @ \o toolResults])
                ELSE currentInteraction
    /\ pmsgPos' = pmsgPos + 1
    /\ UNCHANGED <<pc, segVars, pturns, turnPos, pages, pageIndex,
                   currentToolPage, result>>
    /\ UNCHANGED restVars

\* One iteration of the inner loop, on an assistant record that starts
\* with text.
PageAssistantText ==
    /\ InPageLoop
    /\ LET turn == pturns[turnPos]
           msg == turn.messages[pmsgPos]
           f == flushToolPage(pages, currentToolPage, currentInteraction)
       IN  /\ msg.type = "assistant"
           /\ assistantStartsWithText(msg)
           /\ pages' = Append(f.pages, TextPage(turn.index, pageIndex, msg))
           /\ currentToolPage' = f.toolPage
           /\ currentInteraction' = f.interaction
           /\ pageIndex' = pageIndex + 1
    /\ pmsgPos' = pmsgPos + 1
    /\ UNCHANGED <<pc, segVars, pturns, turnPos, result>>
    /\ UNCHANGED restVars

\* One iteration of the inner loop, on an assistant record that does not
\* start with text.
PageAssistantTool ==
    /\ InPageLoop
    /\ LET turn == pturns[turnPos]
           msg == turn.messages[pmsgPos]
           flushed == IF currentInteraction # Null /\ currentToolPage # Null
                      THEN Option([currentToolPage[1] EXCEPT
                                      !.interactions = Append(@, currentInteraction[1])])
                      ELSE currentToolPage
       IN  /\ msg.type = "assistant"
           /\ ~assistantStartsWithText(msg)
           /\ currentToolPage' = OpenToolPage(flushed, turn.index, pageIndex).toolPage
           /\ pageIndex' = OpenToolPage(flushed, turn.index, pageIndex).pageIndex
           /\ currentInteraction' = Option(ToolInteraction(msg))
    /\ pmsgPos' = pmsgPos + 1
    /\ UNCHANGED <<pc, segVars, pturns, turnPos, pages, result>>
    /\ UNCHANGED restVars

\* After the inner loop: flush, derive the title, push the turn's pages.
PagesTurnFinish ==
    /\ pc = "page_messages"
    /\ pmsgPos > Len(pturns[turnPos].messages)
    /\ LET turn == pturns[turnPos]
           f == flushToolPage(pages, currentToolPage, currentInteraction)
       IN  /\ pages' = f.pages
           /\ currentToolPage' = f.toolPage
           /\ currentInteraction' = f.interaction
           /\ result' = Append(result, [turnIndex |-> turn.index,
                                        title |-> getTurnTitle(turn),
                                        pages |-> f.pages])
    /\ turnPos' = turnPos + 1
    /\ pc' = "page_turns"
    /\ UNCHANGED <<segVars, pturns, pmsgPos, pageIndex>>
    /\ UNCHANGED restVars

\* After the outer loop: return.
PagesReturn ==
    /\ pc = "page_turns"
    /\ turnPos > Len(pturns)
    /\ pc' = "paged"
    /\ UNCHANGED <<segVars, pageVars>>
    /\ UNCHANGED restVars

NextPages ==
    \/ AddTurn
    \/ AddMessage
    \/ PagesStart
    \/ PagesTurnStart
    \/ PageUserText
    \/ PageUserNoText
    \/ PageAssistantText
    \/ PageAssistantTool
    \/ PagesTurnFinish
    \/ PagesReturn

SpecPages == InitPages /\ [][NextPages]_vars

\* ------------------------------------------------------------------------
\* Properties of extractConversationTurns (checked under Spec)
\* ------------------------------------------------------------------------
Conversational(es) == SelectSeq(es, LAMBDA e : e.type \in {"user", "assistant"})

\* A user record that carries narrative text: its string content is not
\* blank, or one of its blocks is a text block that is not blank.
TextBearing(m) ==
    /\ m.type = "user"
    /\ IF m.content.isString
       THEN Trim(m.content.text) # <<>>
       ELSE \E b \in 1..Len(m.content.blocks) :
                /\ m.content.blocks[b].type = "text"
                /\ Trim(m.content.blocks[b].text) # <<>>

\* A user record that carries tool results and nothing else.
ToolResultOnly(m) ==
    /\ m.type = "user"
    /\ ~m.content.isString
    /\ m.content.blocks # <<>>
    /\ \A b \in 1..Len(m.content.blocks) : m.content.blocks[b].type = "tool_result"

\* The text the spec's extraction rule gives: the string, or the text of the
\* first block when that block is a text block, else the empty string.
FirstBlockRuleText(m) ==
    IF m.content.isString THEN m.content.text
    ELSE IF m.content.blocks # <<>> /\ m.content.blocks[1].type = "text"
         THEN m.content.blocks[1].text
         ELSE <<>>

RECURSIVE ConcatMessages(_)
ConcatMessages(ts) ==
    IF ts = <<>> THEN <<>> ELSE Head(ts).messages \o ConcatMessages(Tail(ts))

\* Position of the first text-bearing user record of ms, or 0.
FirstTextBearing(ms) ==
    IF \E i \in 1..Len(ms) : TextBearing(ms[i])
    THEN CHOOSE i \in 1..Len(ms) :
            TextBearing(ms[i]) /\ \A j \in 1..(i - 1) : ~TextBearing(ms[j])
    ELSE 0

InLoop == pc = "segment" /\ msgPos <= Len(messages)

\* C1: the k-th turn returned by extractConversationTurns has index k, and
\* an input with a text-bearing user record yields at least one turn.
C1_TurnIndicesSequential ==
    pc = "segmented" =>
        /\ \A k \in 1..Len(turns) : turns[k].index = k
        /\ (\E i \in 1..Len(entries) : TextBearing(entries[i])) => Len(turns) >= 1

C1_Witness ==
    /\ pc = "segmented"
    /\ Len(turns) >= 3
    /\ \E k \in 1..Len(turns) : Len(turns[k].messages) >= 2

\* C2: in every returned turn, messages[0] is a user record whose extracted
\* text (extractUserText) is non-empty after trimming, and no other message
\* of the turn is a text-bearing user record.
C2_FirstMessageHasExtractedText ==
    pc = "segmented" =>
        \A k \in 1..Len(turns) :
            LET ms == turns[k].messages IN
            /\ Len(ms) >= 1
            /\ ms[1].type = "user"
            /\ Trim(extractUserText(ms[1])) # <<>>
            /\ \A j \in 2..Len(ms) : ~TextBearing(ms[j])

\* C3: a user record that carries only tool results never starts a turn: the
\* loop step on it leaves the turn list and the turn counter alone, appends
\* the record to the open turn, and does nothing when no turn is open.
C3_ToolResultNeverStartsTurn ==
    [][ (InLoop /\ ToolResultOnly(messages[msgPos])) =>
            /\ turns' = turns
            /\ turnIndex' = turnIndex
            /\ IF currentTurn = Null
               THEN currentTurn' = Null
               ELSE /\ currentTurn' # Null
                    /\ currentTurn'[1].index = currentTurn[1].index
                    /\ currentTurn'[1].messages =
                           Append(currentTurn[1].messages, messages[msgPos]) ]_vars

C3_Witness ==
    /\ pc = "segmented"
    /\ Len(messages) >= 3
    /\ ToolResultOnly(messages[1])
    /\ Len(turns) = 1
    /\ Len(turns[1].messages) = 2
    /\ ToolResultOnly(turns[1].messages[2])

\* C4 as stated: a user record with block content whose first block is not
\* a non-blank text block does not start a new turn.
C4_FirstBlockDecides ==
    [][ ( /\ InLoop
          /\ messages[msgPos].type = "user"
          /\ ~messages[msgPos].content.isString
          /\ Trim(FirstBlockRuleText(messages[msgPos])) = <<>> ) =>
            /\ turnIndex' = turnIndex
            /\ turns' = turns ]_vars

\* C4 as amended: a user record with block content starts a new turn
\* exactly when some block of it, first or not, is a non-blank text block.
C4_AnyBlockDecides ==
    [][ (InLoop /\ messages[msgPos].type = "user" /\ ~messages[msgPos].content.isString) =>
            LET msg == messages[msgPos]
                bs == msg.content.blocks
                starts == /\ turnIndex' = turnIndex + 1
                          /\ currentTurn' = <<[index |-> turnIndex, messages |-> <<msg>>]>>
            IN  starts <=> (\E b \in 1..Len(bs) :
                               bs[b].type = "text" /\ Trim(bs[b].text) # <<>>) ]_vars

C4_Witness ==
    /\ pc = "segmented"
    /\ \E k \in 1..Len(turns) :
          /\ turns[k].messages[1].content.blocks # <<>>
          /\ turns[k].messages[1].content.blocks[1].type = "tool_result"
    /\ \E k \in 1..Len(turns) :
          /\ turns[k].messages[1].content.blocks # <<>>
          /\ turns[k].messages[1].content.blocks[1].type = "text"
          /\ Trim(turns[k].messages[1].content.blocks[1].text) = <<>>

\* C5: a text-bearing user record directly followed by another text-bearing
\* user record, or by the end of the stream, yields a turn that holds
\* exactly that record.
C5_TurnWithoutAssistantEmitted ==
    pc = "segmented" =>
        \A i \in 1..Len(messages) :
            ( /\ TextBearing(messages[i])
              /\ (i = Len(messages) \/ TextBearing(messages[i + 1])) ) =>
                \E k \in 1..Len(turns) : turns[k].messages = <<messages[i]>>

C5_Witness ==
    /\ pc = "segmented"
    /\ Len(messages) >= 3
    /\ TextBearing(messages[Len(messages)])
    /\ TextBearing(messages[Len(messages) - 1])
    /\ turns[Len(turns)].messages = <<messages[Len(messages)]>>
    /\ turns[Len(turns) - 1].messages = <<messages[Len(messages) - 1]>>

\* C6: the turns' messages, concatenated, are the user/assistant records of
\* the input from the first text-bearing user record on; markers and the
\* records before that one are in no turn.
C6_TurnsPartitionTheStream ==
    pc = "segmented" =>
        LET ua == Conversational(entries)
            f == FirstTextBearing(ua)
        IN  /\ ConcatMessages(turns) =
                 IF f = 0 THEN <<>> ELSE SubSeq(ua, f, Len(ua))
            /\ f = 0 => turns = <<>>
            /\ \A k \in 1..Len(turns) : turns[k].messages # <<>>

C6_Witness ==
    /\ pc = "segmented"
    /\ Len(entries) = 4
    /\ entries[1].type = "assistant"
    /\ \E i \in 3..4 : entries[i].type \in {"file-history-snapshot", "summary"}
    /\ Len(turns) = 1
    /\ Len(turns[1].messages) = 2

\* ------------------------------------------------------------------------
\* Properties of convertTurnsToPages (checked under SpecPages)
\* ------------------------------------------------------------------------
\* An assistant record whose first block that is not a thinking block
\* exists and is a text block.
TextStarting(m) ==
    /\ m.type = "assistant"
    /\ LET nr == SelectSeq(m.content.blocks, LAMBDA b : b.type # "thinking")
       IN  nr # <<>> /\ nr[1].type = "text"

ToolStarting(m) == m.type = "assistant" /\ ~TextStarting(m)

\* A user record the partitioner makes a user page of.
UserWithText(m) == m.type = "user" /\ Trim(extractUserText(m)) # <<>>

\* A user record the partitioner takes tool results from.
UserWithoutText(m) == m.type = "user" /\ Trim(extractUserText(m)) = <<>>

\* A record that ends a run of tool-starting records.
EndsToolRun(m) == TextStarting(m) \/ UserWithText(m)

RECURSIVE ToolResultsInOrder(_)
ToolResultsInOrder(bs) ==
    IF bs = <<>> THEN <<>>
    ELSE (IF Head(bs).type = "tool_result" THEN <<Head(bs)>> ELSE <<>>)
         \o ToolResultsInOrder(Tail(bs))

\* The places <<page, interaction>> of a page list where record m is the
\* invocation of an interaction.
InteractionsOf(pgs, m) ==
    UNION { { <<p, k>> : k \in { k \in 1..Len(pgs[p].interactions) :
                                    pgs[p].interactions[k].toolUse = m } } :
            p \in { p \in 1..Len(pgs) : pgs[p].type = "tool" } }

\* The pages of a page list where record m is the assistant of a text page.
TextPagesOf(pgs, m) ==
    { p \in 1..Len(pgs) : pgs[p].type = "text" /\ pgs[p].assistant = m }

\* C7: in every page list, the k-th page has pageIndex k.
C7_PageIndicesSequential ==
    /\ \A t \in 1..Len(result) :
          \A k \in 1..Len(result[t].pages) : result[t].pages[k].pageIndex = k
    /\ \A k \in 1..Len(pages) : pages[k].pageIndex = k

C7_Witness ==
    /\ pc = "paged"
    /\ Len(result) = 1
    /\ Len(result[1].pages) = 3
    /\ result[1].pages[1].type = "user"
    /\ result[1].pages[2].type = "tool"
    /\ result[1].pages[3].type = "text"

\* C8: tool-starting records with no text-starting record and no user
\* record with text between them are interactions of one tool page, in
\* their order; every tool-starting record is the invocation of exactly one
\* interaction; a text-starting record that follows has the text page right
\* after that tool page.
C8_ToolRunsGrouped ==
    \A t \in 1..Len(result) :
        LET ms == pturns[t].messages
            pgs == result[t].pages
        IN  /\ \A i \in 1..Len(ms) :
                  ToolStarting(ms[i]) => Cardinality(InteractionsOf(pgs, ms[i])) = 1
            /\ \A i \in 1..Len(ms) : \A j \in (i + 1)..Len(ms) :
                  ( /\ ToolStarting(ms[i])
                    /\ \A x \in (i + 1)..(j - 1) : ~EndsToolRun(ms[x]) ) =>
                      \E a \in InteractionsOf(pgs, ms[i]) :
                          /\ ToolStarting(ms[j]) =>
                                \E b \in InteractionsOf(pgs, ms[j]) :
                                    a[1] = b[1] /\ a[2] < b[2]
                          /\ TextStarting(ms[j]) =>
                                /\ a[1] < Len(pgs)
                                /\ pgs[a[1] + 1].type = "text"
                                /\ pgs[a[1] + 1].assistant = ms[j]

C8_Witness ==
    /\ pc = "paged"
    /\ Len(result) = 1
    /\ Len(pturns[1].messages) = 3
    /\ Len(result[1].pages) = 2
    /\ result[1].pages[1].type = "tool"
    /\ Len(result[1].pages[1].interactions) = 2
    /\ result[1].pages[2].type = "text"

\* C9: an assistant record is the assistant of a text page exactly when its
\* first block that is not a thinking block exists and is a text block;
\* every other assistant record is the invocation of an interaction of a
\* tool page.
C9_TextStartingClassification ==
    \A t \in 1..Len(result) :
        LET ms == pturns[t].messages
            pgs == result[t].pages
        IN  \A i \in 1..Len(ms) :
                ms[i].type = "assistant" =>
                    /\ TextPagesOf(pgs, ms[i]) # {} <=> TextStarting(ms[i])
                    /\ InteractionsOf(pgs, ms[i]) # {} <=> ~TextStarting(ms[i])

C9_Witness ==
    /\ pc = "paged"
    /\ Len(result) = 1
    /\ Len(result[1].pages) = 2
    /\ result[1].pages[1].type = "text"
    /\ result[1].pages[1].assistant.content.blocks[1].type = "thinking"
    /\ result[1].pages[2].type = "tool"
    /\ Len(result[1].pages[2].interactions) = 2
    /\ result[1].pages[2].interactions[1].toolUse.content.blocks = <<>>
    /\ result[1].pages[2].interactions[2].toolUse.content.blocks = <<ThinkingBlock>>

\* C10: the loop step on a user record with empty extracted text appends
\* the record's tool results, in block order, to the open interaction; with
\* no interaction open it changes nothing; in both cases it adds no page,
\* opens no tool page and leaves the page counter alone.
C10_ToolResultsJoinOpenInteraction ==
    [][ (InPageLoop /\ UserWithoutText(pturns[turnPos].messages[pmsgPos])) =>
            LET msg == pturns[turnPos].messages[pmsgPos] IN
            /\ pages' = pages
            /\ pageIndex' = pageIndex
            /\ currentToolPage' = currentToolPage
            /\ result' = result
            /\ IF currentInteraction = Null
               THEN currentInteraction' = Null
               ELSE /\ currentInteraction' # Null
                    /\ currentInteraction'[1].toolUse = currentInteraction[1].toolUse
                    /\ currentInteraction'[1].toolResults =
                           currentInteraction[1].toolResults
                               \o ToolResultsInOrder(msg.content.blocks) ]_vars

C10_Witness ==
    /\ pc = "paged"
    /\ Len(result) = 1
    /\ Len(pturns[1].messages) = 3
    /\ UserWithoutText(pturns[1].messages[1])
    /\ ToolStarting(pturns[1].messages[2])
    /\ Len(result[1].pages) = 1
    /\ Len(result[1].pages[1].interactions) = 1
    /\ Len(result[1].pages[1].interactions[1].toolResults) = 2
    /\ result[1].pages[1].interactions[1].toolResults =
           ToolResultsInOrder(pturns[1].messages[3].content.blocks)

\* The ids of the tool invocations of assistant record m.
ToolUseIds(m) ==
    IF m.type = "assistant"
    THEN {m.content.blocks[k].id : k \in {x \in 1..Len(m.content.blocks) :
                                             m.content.blocks[x].type = "tool_use"}}
    ELSE {}

\* The tool result blocks of user record m.
ToolResultBlocksOf(m) ==
    IF m.type = "user" /\ ~m.content.isString
    THEN {m.content.blocks[k] : k \in {x \in 1..Len(m.content.blocks) :
                                          m.content.blocks[x].type = "tool_result"}}
    ELSE {}

\* Every tool result of the turn references an invocation of an earlier
\* assistant record of the same turn.
EveryResultReferencesEarlier(ms) ==
    \A i \in 1..Len(ms) : \A b \in ToolResultBlocksOf(ms[i]) :
        \E j \in 1..(i - 1) : b.id \in ToolUseIds(ms[j])

\* C11: in a turn whose tool results all reference an invocation of an
\* earlier assistant record of the turn, every tool result block is in the
\* result list of the interaction whose assistant record holds the
\* invocation with that id, so no tool result is lost.
C11_ResultsPairedWithTheirInvocation ==
    \A t \in 1..Len(result) :
        LET ms == pturns[t].messages
            pgs == result[t].pages
        IN  EveryResultReferencesEarlier(ms) =>
                \A i \in 1..Len(ms) : \A b \in ToolResultBlocksOf(ms[i]) :
                    \E p \in 1..Len(pgs) :
                        /\ pgs[p].type = "tool"
                        /\ \E k \in 1..Len(pgs[p].interactions) :
                              LET it == pgs[p].interactions[k] IN
                              /\ b.id \in ToolUseIds(it.toolUse)
                              /\ \E r \in 1..Len(it.toolResults) : it.toolResults[r] = b

\* ------------------------------------------------------------------------
\* renderer.ts: buildToolUseMap
\* ------------------------------------------------------------------------

\* A tool invocation block with its tool name.
NamedToolUse(i, n) == [type |-> "tool_use", text |-> <<>>, id |-> i, name |-> n]

\* map.set(block.id, block), keeping the first block of an id
MapSetKeepsFirst(map, block) ==
    [k \in DOMAIN map \cup {block.id} |-> IF k \in DOMAIN map THEN map[k] ELSE block]

\* map.set(block.id, block)
MapSet(map, block) ==
    [k \in DOMAIN map \cup {block.id} |-> IF k = block.id THEN block ELSE map[k]]

\* The loop over the blocks of one assistant record.
RECURSIVE SetToolUses(_, _)
SetToolUses(map, blocks) ==
    IF blocks = <<>> THEN map
    ELSE SetToolUses(IF Head(blocks).type = "tool_use"
                     THEN MapSet(map, Head(blocks))
                     ELSE map,
                     Tail(blocks))

\* The messages a turn can hold at position u; two invocations can carry
\* the same id.
ToolMapMessages(u) ==
    {UserMessage(u, StringContent(<<"a">>))}
    \cup {AssistantMessage(u, bs) : bs \in
            { <<TextBlock(<<"a">>)>>,
              <<NamedToolUse(1, "Read")>>,
              <<NamedToolUse(1, "Edit")>>,
              <<NamedToolUse(2, "Read")>>,
              <<NamedToolUse(1, "Read"), NamedToolUse(1, "Edit")>>,
              <<TextBlock(<<"a">>), NamedToolUse(2, "Edit")>> }}

InitToolMap ==
    /\ pc = "map_input"
    /\ entries = <<>>
    /\ messages = <<>>
    /\ msgPos = 1
    /\ currentTurn = Null
    /\ turnIndex = 1
    /\ turns = <<>>
    /\ pturns = <<>>
    /\ turnPos = 1
    /\ pmsgPos = 1
    /\ pages = <<>>
    /\ pageIndex = 1
    /\ currentToolPage = Null
    /\ currentInteraction = Null
    /\ result = <<>>
    /\ InitRest

mapFrame == <<segVars, turnPos, pmsgPos, pages, pageIndex, currentToolPage,
              currentInteraction, result, parseVars, mergeVars, mainVars,
              firstResult, callArg, callRet>>

\* The caller builds the turn list: it opens a turn ...
AddMapTurn ==
    /\ pc = "map_input"
    /\ Len(pturns) < MaxTurns
    /\ pturns' = Append(pturns, [index |-> Len(pturns) + 1, messages |-> <<>>])
    /\ UNCHANGED <<pc, mapVars, mapFrame>>

\* ... or puts one more message in the last turn.
AddMapMessage ==
    /\ pc = "map_input"
    /\ pturns # <<>>
    /\ CountMessages(pturns) < MaxMsgs
    /\ \E m \in ToolMapMessages(CountMessages(pturns) + 1) :
          pturns' = [pturns EXCEPT ![Len(pturns)].messages = Append(@, m)]
    /\ UNCHANGED <<pc, mapVars, mapFrame>>

\* buildToolUseMap, entry
MapStart ==
    /\ pc = "map_input"
    /\ pc' = "map_turns"
    /\ toolUseMap' = <<>>
    /\ mapTurnPos' = 1
    /\ mapMsgPos' = 1
    /\ UNCHANGED <<pturns, mapFrame>>

\* One iteration of the loop over the messages of a turn.
MapMessage ==
    /\ pc = "map_turns"
    /\ mapTurnPos <= Len(pturns)
    /\ mapMsgPos <= Len(pturns[mapTurnPos].messages)
    /\ LET msg == pturns[mapTurnPos].messages[mapMsgPos] IN
        toolUseMap' = IF msg.type = "assistant"
                      THEN SetToolUses(toolUseMap, msg.content.blocks)
                      ELSE toolUseMap
    /\ mapMsgPos' = mapMsgPos + 1
    /\ UNCHANGED <<pc, pturns, mapTurnPos, mapFrame>>

\* The loop over the turns moves on to the next turn.
MapNextTurn ==
    /\ pc = "map_turns"
    /\ mapTurnPos <= Len(pturns)
    /\ mapMsgPos > Len(pturns[mapTurnPos].messages)
    /\ mapTurnPos' = mapTurnPos + 1
    /\ mapMsgPos' = 1
    /\ UNCHANGED <<pc, pturns, toolUseMap, mapFrame>>

\* After the loops
MapReturn ==
    /\ pc = "map_turns"
    /\ mapTurnPos > Len(pturns)
    /\ pc' = "mapped"
    /\ UNCHANGED <<pturns, mapVars, mapFrame>>

NextToolMap ==
    \/ AddMapTurn
    \/ AddMapMessage
    \/ MapStart
    \/ MapMessage
    \/ MapNextTurn
    \/ MapReturn

SpecToolMap == InitToolMap /\ [][NextToolMap]_vars

\* ------------------------------------------------------------------------
\* Properties of buildToolUseMap (checked under SpecToolMap)
\* ------------------------------------------------------------------------

\* The tool invocation blocks of a block list, in order.
ToolUsesOfBlocks(blocks) == SelectSeq(blocks, LAMBDA b : b.type = "tool_use")

\* The tool invocation blocks of a message list, in message and block order.
RECURSIVE ToolUsesOfMessages(_)
ToolUsesOfMessages(ms) ==
    IF ms = <<>> THEN <<>>
    ELSE (IF Head(ms).type = "assistant"
          THEN ToolUsesOfBlocks(Head(ms).content.blocks)
          ELSE <<>>) \o ToolUsesOfMessages(Tail(ms))

\* The tool invocation blocks of a turn list, in turn, message and block order.
RECURSIVE ToolUsesOfTurns(_)
ToolUsesOfTurns(ts) ==
    IF ts = <<>> THEN <<>>
    ELSE ToolUsesOfMessages(Head(ts).messages) \o ToolUsesOfTurns(Tail(ts))

\* C12: the map returned by buildToolUseMap has exactly one entry for each
\* id of a tool invocation of the turns, and the entry of an id is the last
\* invocation with that id in turn, message and block order.
C12_MapHoldsLastInvocationPerId ==
    pc = "mapped" =>
        LET all == ToolUsesOfTurns(pturns) IN
        /\ DOMAIN toolUseMap = {all[i].id : i \in 1..Len(all)}
        /\ \A i \in 1..Len(all) :
              (\A j \in (i + 1)..Len(all) : all[j].id # all[i].id) =>
                  toolUseMap[all[i].id] = all[i]

C12_Witness ==
    /\ pc = "mapped"
    /\ Len(pturns) = 2
    /\ pturns[1].messages = <<AssistantMessage(1, <<NamedToolUse(1, "Read"),
                                                    NamedToolUse(1, "Edit")>>)>>
    /\ pturns[2].messages = <<AssistantMessage(2, <<NamedToolUse(2, "Read")>>),
                              AssistantMessage(3, <<NamedToolUse(1, "Read")>>)>>
    /\ DOMAIN toolUseMap = {1, 2}
    /\ toolUseMap[1] = NamedToolUse(1, "Read")
    /\ toolUseMap[2] = NamedToolUse(2, "Read")

\* ------------------------------------------------------------------------
\* parser.ts: parseSessionFile, loadSessionFile
\* ------------------------------------------------------------------------

\* Largest number of characters of a file read by parseSessionFile alone.
MaxChars == 5

\* The records of a log as they are decoded from a line.  The field origin
\* is the identity of the object: loadAndMergeSessionFiles sets it to the
\* file and the place of the record in it.
LoggedUser(u, ts, c) ==
    [type |-> "user", uuid |-> u, timestamp |-> ts, content |-> c, origin |-> <<>>]

LoggedAssistant(u, ts, bs) ==
    [type |-> "assistant", uuid |-> u, timestamp |-> ts,
     content |-> BlockContent(bs), origin |-> <<>>]

LoggedSnapshot(m) == [type |-> "file-history-snapshot", messageId |-> m, origin |-> <<>>]

LoggedSummary(l) == [type |-> "summary", leafUuid |-> l, origin |-> <<>>]

\* An object without a known type, as decoded from the text {}
UntypedEntry == [type |-> "undefined", origin |-> <<>>]

\* String.prototype.split("\n"): the pieces between the newlines, at least one.
RECURSIVE SplitLines(_)
SplitLines(s) ==
    IF s = <<>> THEN << <<>> >>
    ELSE IF Head(s) = "\n" THEN << <<>> >> \o SplitLines(Tail(s))
    ELSE LET r == SplitLines(Tail(s)) IN << <<Head(s)>> \o Head(r) >> \o Tail(r)

\* The letter between the braces stands for the members of the object: a
\* user prompt, an assistant reply, an assistant tool invocation, the user
\* record with its result, the snapshot taken at the prompt and a summary
\* marker.  The records of a session carry the times 1, 2, 3, 4.
EntryOfLetter(c) ==
    CASE c = "u" -> LoggedUser(1, 1, StringContent(<<"a">>))
      [] c = "a" -> LoggedAssistant(2, 2, <<TextBlock(<<"a">>)>>)
      [] c = "t" -> LoggedAssistant(3, 3, <<NamedToolUse(3, "Read")>>)
      [] c = "r" -> LoggedUser(4, 4, BlockContent(<<ToolResultBlock(3)>>))
      [] c = "h" -> LoggedSnapshot(1)
      [] c = "s" -> LoggedSummary(2)

EntryLetters == {"u", "a", "t", "r", "h", "s"}

\* JSON.parse of a trimmed line: Null when it throws, else Option(record).
\* A text is an object when it is a pair of braces around nothing or
\* around the members; white space between them does not count.
JSONParse(text) ==
    IF Len(text) < 2 \/ text[1] # "{" \/ text[Len(text)] # "}"
    THEN Null
    ELSE LET inner == SelectSeq(SubSeq(text, 2, Len(text) - 1),
                                LAMBDA c : ~IsWhitespace(c))
         IN  IF inner = <<>> THEN Option(UntypedEntry)
             ELSE IF Len(inner) = 1 /\ inner[1] \in EntryLetters
                  THEN Option(EntryOfLetter(inner[1]))
                  ELSE Null

\* The loop over the complete lines of the buffer: the records yielded, and
\* whether JSON.parse threw (nothing is yielded after that).
RECURSIVE YieldLines(_)
YieldLines(lines) ==
    IF lines = <<>> THEN [threw |-> FALSE, entries |-> <<>>]
    ELSE LET trimmed == Trim(Head(lines)) IN
         IF trimmed = <<>> THEN YieldLines(Tail(lines))
         ELSE IF JSONParse(trimmed) = Null THEN [threw |-> TRUE, entries |-> <<>>]
         ELSE LET r == YieldLines(Tail(lines)) IN
              [threw |-> r.threw, entries |-> JSONParse(trimmed) \o r.entries]

\* buffer = lines.pop() || "", forgetting the incomplete line
IncompleteLineDropped(lines) == <<>>

\* buffer = lines.pop() || ""
IncompleteLine(lines) == lines[Len(lines)]

\* The lines left in the array after lines.pop()
CompleteLines(lines) == SubSeq(lines, 1, Len(lines) - 1)

\* The body of the read loop for one chunk.
ReadChunk(buf, chunk) ==
    LET lines == SplitLines(buf \o chunk)
        r == YieldLines(CompleteLines(lines))
    IN  [threw |-> r.threw, entries |-> r.entries, buffer |-> IncompleteLine(lines)]

\* The branch of the read loop taken when the reader is done.
ReadDone(buf) ==
    IF Trim(buf) = <<>> THEN [threw |-> FALSE, entries |-> <<>>]
    ELSE IF JSONParse(Trim(buf)) = Null THEN [threw |-> TRUE, entries |-> <<>>]
    ELSE [threw |-> FALSE, entries |-> JSONParse(Trim(buf))]

\* loadSessionFile returning the records decoded before a failure
loadSessionFileKeepsDecoded(text) ==
    LET first == IF text = <<>>
                 THEN [threw |-> FALSE, entries |-> <<>>, buffer |-> <<>>]
                 ELSE ReadChunk(<<>>, text)
        last == ReadDone(first.buffer)
    IN  Option(first.entries \o last.entries)

\* loadSessionFile: Null when parseSessionFile throws, else Option(records).
\* The reader hands over the whole text as one chunk.
loadSessionFile(text) ==
    LET first == IF text = <<>>
                 THEN [threw |-> FALSE, entries |-> <<>>, buffer |-> <<>>]
                 ELSE ReadChunk(<<>>, text)
        last == ReadDone(first.buffer)
    IN  IF first.threw \/ last.threw THEN Null
        ELSE Option(first.entries \o last.entries)

FileChars == {"{", "}", "u", "\n", " "}

parseFrame == <<segVars, pageVars, mapVars, mergeVars, mainVars, firstResult,
                callArg, callRet>>

InitParse ==
    /\ pc = "file_input"
    /\ entries = <<>>
    /\ messages = <<>>
    /\ msgPos = 1
    /\ currentTurn = Null
    /\ turnIndex = 1
    /\ turns = <<>>
    /\ pturns = <<>>
    /\ turnPos = 1
    /\ pmsgPos = 1
    /\ pages = <<>>
    /\ pageIndex = 1
    /\ currentToolPage = Null
    /\ currentInteraction = Null
    /\ result = <<>>
    /\ InitRest

\* The file is any text.
AddChar ==
    /\ pc = "file_input"
    /\ Len(fileText) < MaxChars
    /\ \E c \in FileChars : fileText' = Append(fileText, c)
    /\ UNCHANGED <<pc, readPos, buffer, yielded, parseFrame>>

\* parseSessionFile, entry: open the file.
ParseOpen ==
    /\ pc = "file_input"
    /\ pc' = "reading"
    /\ readPos' = 0
    /\ buffer' = <<>>
    /\ yielded' = <<>>
    /\ UNCHANGED <<fileText, parseFrame>>

\* reader.read() delivers a chunk of any length.
ParseRead ==
    /\ pc = "reading"
    /\ readPos < Len(fileText)
    /\ \E n \in 1..(Len(fileText) - readPos) :
        LET r == ReadChunk(buffer, SubSeq(fileText, readPos + 1, readPos + n)) IN
        /\ readPos' = readPos + n
        /\ yielded' = yielded \o r.entries
        /\ buffer' = r.buffer
        /\ pc' = IF r.threw THEN "parse_threw" ELSE "reading"
    /\ UNCHANGED <<fileText, parseFrame>>

\* reader.read() reports the end of the file.
ParseEnd ==
    /\ pc = "reading"
    /\ readPos = Len(fileText)
    /\ LET r == ReadDone(buffer) IN
        /\ yielded' = yielded \o r.entries
        /\ pc' = IF r.threw THEN "parse_threw" ELSE "parsed"
    /\ UNCHANGED <<fileText, readPos, buffer, parseFrame>>

NextParse ==
    \/ AddChar
    \/ ParseOpen
    \/ ParseRead
    \/ ParseEnd

SpecParse == InitParse /\ [][NextParse]_vars

\* ------------------------------------------------------------------------
\* main.ts: loadAndMergeSessionFiles, main
\* ------------------------------------------------------------------------

\* Largest number of input files, and of lines in all of them together.
MaxFiles == 2
MaxLines == 3

\* The lines an input file can hold: the six records and a line cut short.
LineTexts ==
    {<<"{", c, "}">> : c \in EntryLetters} \cup {<<"{", "u">>}

LineCount(text) == IF text = <<>> THEN 0 ELSE Len(SplitLines(text))

RECURSIVE TotalLines(_)
TotalLines(fs) ==
    IF fs = <<>> THEN 0 ELSE LineCount(Head(fs).text) + TotalLines(Tail(fs))

\* The records of file f as objects of their own.
WithOrigin(es, f) == [i \in 1..Len(es) |-> [es[i] EXCEPT !.origin = <<f, i>>]]

\* A timestamp or key that is null, undefined or empty is 0.
Truthy(x) == x # 0

RECURSIVE getFirstTimestamp(_)
getFirstTimestamp(es) ==
    IF es = <<>> THEN 0
    ELSE IF Head(es).type \in {"user", "assistant"} /\ Truthy(Head(es).timestamp)
         THEN Head(es).timestamp
         ELSE getFirstTimestamp(Tail(es))

\* getEntryUuid without the branch for snapshots
getEntryUuidNoSnapshot(entry) ==
    IF entry.type \in {"user", "assistant"} THEN entry.uuid
    ELSE 0

getEntryUuid(entry) ==
    IF entry.type \in {"user", "assistant"} THEN entry.uuid
    ELSE IF entry.type = "file-history-snapshot" THEN entry.messageId
    ELSE 0

\* The comparator handed to loadedSessions.sort
CompareSessions(a, b) ==
    IF ~Truthy(a.firstTimestamp) THEN -1
    ELSE IF ~Truthy(b.firstTimestamp) THEN 1
    ELSE IF a.firstTimestamp < b.firstTimestamp THEN -1
    ELSE IF a.firstTimestamp > b.firstTimestamp THEN 1
    ELSE 0

IndexPermutations(n) ==
    {p \in [1..n -> 1..n] : \A i, j \in 1..n : p[i] = p[j] => i = j}

\* The comparator is consistent on ss when no two elements compare as
\* smaller than each other.
ConsistentOn(ss) ==
    \A i, j \in 1..Len(ss) :
        i # j => ~(CompareSessions(ss[i], ss[j]) < 0 /\ CompareSessions(ss[j], ss[i]) < 0)

\* Array.prototype.sort: a stable sort under a consistent comparator, and an
\* order the implementation chooses under any other.
SortOutcomes(ss) ==
    LET n == Len(ss)
        ordered(p) ==
            \A i, j \in 1..n :
                i < j =>
                    /\ CompareSessions(ss[p[i]], ss[p[j]]) <= 0
                    /\ CompareSessions(ss[p[i]], ss[p[j]]) = 0 => p[i] < p[j]
    IN  {[i \in 1..n |-> ss[p[i]]] :
            p \in {q \in IndexPermutations(n) : ConsistentOn(ss) => ordered(q)}}

\* File names of the pages (renderer.ts, getPageFilename)
\* getPageFilename naming the page of the user without the turn
getPageFilenameNoTurn(page) ==
    LET turn == <<"t", "u", "r", "n", "_">> \o ToDecimal(page.turnIndex)
        md == <<".", "m", "d">>
    IN  CASE page.type = "user" -> <<"u", "s", "e", "r">> \o md
          [] page.type = "text" ->
                turn \o <<"_", "t", "e", "x", "t", "_">> \o ToDecimal(page.pageIndex) \o md
          [] page.type = "tool" ->
                turn \o <<"_", "t", "o", "o", "l", "_">> \o ToDecimal(page.pageIndex) \o md

getPageFilename(page) ==
    LET turn == <<"t", "u", "r", "n", "_">> \o ToDecimal(page.turnIndex)
        md == <<".", "m", "d">>
    IN  CASE page.type = "user" -> turn \o <<"_", "u", "s", "e", "r">> \o md
          [] page.type = "text" ->
                turn \o <<"_", "t", "e", "x", "t", "_">> \o ToDecimal(page.pageIndex) \o md
          [] page.type = "tool" ->
                turn \o <<"_", "t", "o", "o", "l", "_">> \o ToDecimal(page.pageIndex) \o md

RECURSIVE PageFilenames(_)
PageFilenames(tps) ==
    IF tps = <<>> THEN <<>>
    ELSE [k \in 1..Len(Head(tps).pages) |-> getPageFilename(Head(tps).pages[k])]
         \o PageFilenames(Tail(tps))

InitMain ==
    /\ pc = "args"
    /\ entries = <<>>
    /\ messages = <<>>
    /\ msgPos = 1
    /\ currentTurn = Null
    /\ turnIndex = 1
    /\ turns = <<>>
    /\ pturns = <<>>
    /\ turnPos = 1
    /\ pmsgPos = 1
    /\ pages = <<>>
    /\ pageIndex = 1
    /\ currentToolPage = Null
    /\ currentInteraction = Null
    /\ result = <<>>
    /\ InitRest

calleeVars == <<segVars, pageVars, mapVars, parseVars, firstResult, callArg, callRet>>

outputVars == <<dirCreated, written>>

\* The command line names one more file, which exists or not ...
AddFile ==
    /\ pc = "args"
    /\ Len(inputFiles) < MaxFiles
    /\ \E e \in BOOLEAN :
          inputFiles' = Append(inputFiles, [exists |-> e, text |-> <<>>])
    /\ UNCHANGED <<pc, mergeVars, outputVars, exitCode, calleeVars>>

\* ... and the last file, if it exists, holds one more line.
AddLine ==
    /\ pc = "args"
    /\ inputFiles # <<>>
    /\ inputFiles[Len(inputFiles)].exists
    /\ TotalLines(inputFiles) < MaxLines
    /\ \E l \in LineTexts :
          inputFiles' = [inputFiles EXCEPT ![Len(inputFiles)].text =
                            IF @ = <<>> THEN l ELSE @ \o <<"\n">> \o l]
    /\ UNCHANGED <<pc, mergeVars, outputVars, exitCode, calleeVars>>

\* main without an input file: parseCliArgs returns null, Deno.exit(0).
MainNoInputFile ==
    /\ pc = "args"
    /\ inputFiles = <<>>
    /\ pc' = "exited"
    /\ exitCode' = Option(0)
    /\ UNCHANGED <<inputFiles, mergeVars, outputVars, calleeVars>>

\* main: Deno.stat fails for an input file, Deno.exit(1).
MainFileNotFound ==
    /\ pc = "args"
    /\ \E f \in 1..Len(inputFiles) : ~inputFiles[f].exists
    /\ pc' = "exited"
    /\ exitCode' = Option(1)
    /\ UNCHANGED <<inputFiles, mergeVars, outputVars, calleeVars>>

\* main calls loadAndMergeSessionFiles.
MainLoadStart ==
    /\ pc = "args"
    /\ inputFiles # <<>>
    /\ \A f \in 1..Len(inputFiles) : inputFiles[f].exists
    /\ pc' = "load"
    /\ loadedSessions' = <<>>
    /\ UNCHANGED <<inputFiles, seenUuids, merged, sessionPos, entryPos,
                   outputVars, exitCode, calleeVars>>

\* One iteration of the loading loop.  When loadSessionFile throws, so do
\* loadAndMergeSessionFiles and main, and the handler of main exits with 1.
LoadFile ==
    /\ pc = "load"
    /\ Len(loadedSessions) < Len(inputFiles)
    /\ LET file == Len(loadedSessions) + 1
           loaded == loadSessionFile(inputFiles[file].text)
       IN  IF loaded = Null
           THEN /\ pc' = "exited"
                /\ exitCode' = Option(1)
                /\ UNCHANGED loadedSessions
           ELSE /\ loadedSessions' =
                     Append(loadedSessions,
                            [file |-> file,
                             entries |-> WithOrigin(loaded[1], file),
                             firstTimestamp |-> getFirstTimestamp(loaded[1])])
                /\ UNCHANGED <<pc, exitCode>>
    /\ UNCHANGED <<inputFiles, seenUuids, merged, sessionPos, entryPos,
                   outputVars, calleeVars>>

\* loadedSessions.sort, and the set-up of the merge loop.
SortSessions ==
    /\ pc = "load"
    /\ Len(loadedSessions) = Len(inputFiles)
    /\ loadedSessions' \in SortOutcomes(loadedSessions)
    /\ seenUuids' = {}
    /\ merged' = <<>>
    /\ sessionPos' = 1
    /\ entryPos' = 1
    /\ pc' = "merge"
    /\ UNCHANGED <<inputFiles, outputVars, exitCode, calleeVars>>

InMergeLoop ==
    /\ pc = "merge"
    /\ sessionPos <= Len(loadedSessions)
    /\ entryPos <= Len(loadedSessions[sessionPos].entries)

\* The iteration on a summary marker without its continue: the marker has
\* no key and is pushed.
MergeSummaryKept ==
    /\ InMergeLoop
    /\ loadedSessions[sessionPos].entries[entryPos].type = "summary"
    /\ merged' = Append(merged, loadedSessions[sessionPos].entries[entryPos])
    /\ entryPos' = entryPos + 1
    /\ UNCHANGED <<pc, inputFiles, loadedSessions, seenUuids, sessionPos,
                   outputVars, exitCode, calleeVars>>

\* One iteration of the merge loop, on a summary marker.
MergeSkipSummary ==
    /\ InMergeLoop
    /\ loadedSessions[sessionPos].entries[entryPos].type = "summary"
    /\ entryPos' = entryPos + 1
    /\ UNCHANGED <<pc, inputFiles, loadedSessions, seenUuids, merged, sessionPos,
                   outputVars, exitCode, calleeVars>>

\* One iteration of the merge loop, on a record whose key was seen.
MergeSkipSeen ==
    /\ InMergeLoop
    /\ LET entry == loadedSessions[sessionPos].entries[entryPos]
           uuid == getEntryUuid(entry)
       IN  /\ entry.type # "summary"
           /\ Truthy(uuid) /\ uuid \in seenUuids
    /\ entryPos' = entryPos + 1
    /\ UNCHANGED <<pc, inputFiles, loadedSessions, seenUuids, merged, sessionPos,
                   outputVars, exitCode, calleeVars>>

\* One iteration of the merge loop, on any other record.
MergeKeep ==
    /\ InMergeLoop
    /\ LET entry == loadedSessions[sessionPos].entries[entryPos]
           uuid == getEntryUuid(entry)
       IN  /\ entry.type # "summary"
           /\ ~(Truthy(uuid) /\ uuid \in seenUuids)
           /\ seenUuids' = IF Truthy(uuid) THEN seenUuids \cup {uuid} ELSE seenUuids
           /\ merged' = Append(merged, entry)
    /\ entryPos' = entryPos + 1
    /\ UNCHANGED <<pc, inputFiles, loadedSessions, sessionPos,
                   outputVars, exitCode, calleeVars>>

\* The outer merge loop moves on to the next source.
MergeNextSession ==
    /\ pc = "merge"
    /\ sessionPos <= Len(loadedSessions)
    /\ entryPos > Len(loadedSessions[sessionPos].entries)
    /\ sessionPos' = sessionPos + 1
    /\ entryPos' = 1
    /\ UNCHANGED <<pc, inputFiles, loadedSessions, seenUuids, merged,
                   outputVars, exitCode, calleeVars>>

\* loadAndMergeSessionFiles returns.
MergeReturn ==
    /\ pc = "merge"
    /\ sessionPos > Len(loadedSessions)
    /\ pc' = "merged"
    /\ UNCHANGED <<mergeVars, mainVars, calleeVars>>

\* main calls extractConversationTurns on the merged records.
MainExtractTurns ==
    /\ pc = "merged"
    /\ pc' = "segment"
    /\ entries' = merged
    /\ messages' = SelectSeq(merged, LAMBDA e : isUserMessage(e) \/ isAssistantMessage(e))
    /\ msgPos' = 1
    /\ currentTurn' = Null
    /\ turnIndex' = 1
    /\ turns' = <<>>
    /\ UNCHANGED <<pageVars, restVars>>

\* main: no turn was found, Deno.exit(1).
MainNoTurns ==
    /\ pc = "segmented"
    /\ Len(turns) = 0
    /\ pc' = "exited"
    /\ exitCode' = Option(1)
    /\ UNCHANGED <<inputFiles, mergeVars, outputVars, calleeVars>>

\* main going on to convertTurnsToPages without the test for zero turns
MainConvertTurnsUnchecked ==
    /\ pc = "segmented"
    /\ pc' = "page_turns"
    /\ pturns' = turns
    /\ result' = <<>>
    /\ turnPos' = 1
    /\ UNCHANGED <<segVars, pmsgPos, pages, pageIndex, currentToolPage,
                   currentInteraction, restVars>>

\* main calls convertTurnsToPages on the turns.
MainConvertTurns ==
    /\ pc = "segmented"
    /\ Len(turns) # 0
    /\ pc' = "page_turns"
    /\ pturns' = turns
    /\ result' = <<>>
    /\ turnPos' = 1
    /\ UNCHANGED <<segVars, pmsgPos, pages, pageIndex, currentToolPage,
                   currentInteraction, restVars>>

\* main: ensureDir(srcDir)
MainEnsureDir ==
    /\ pc = "paged"
    /\ dirCreated' = TRUE
    /\ pc' = "write_book"
    /\ UNCHANGED <<inputFiles, mergeVars, written, exitCode, calleeVars>>

\* main writes book.toml
MainWriteBookToml ==
    /\ pc = "write_book"
    /\ written' = Append(written, <<"book.toml">>)
    /\ pc' = "write_summary"
    /\ UNCHANGED <<inputFiles, mergeVars, dirCreated, exitCode, calleeVars>>

\* main writes SUMMARY.md and calls buildToolUseMap on the turns.
MainWriteSummary ==
    /\ pc = "write_summary"
    /\ written' = Append(written, <<"SUMMARY.md">>)
    /\ pc' = "map_turns"
    /\ toolUseMap' = <<>>
    /\ mapTurnPos' = 1
    /\ mapMsgPos' = 1
    /\ UNCHANGED <<inputFiles, mergeVars, dirCreated, exitCode, segVars, pageVars,
                   parseVars, firstResult, callArg, callRet>>

\* main writes the page files and returns.
MainWritePages ==
    /\ pc = "mapped"
    /\ written' = written \o PageFilenames(result)
    /\ pc' = "exited"
    /\ exitCode' = Option(0)
    /\ UNCHANGED <<inputFiles, mergeVars, dirCreated, calleeVars>>

NextMain ==
    \/ AddFile
    \/ AddLine
    \/ MainNoInputFile
    \/ MainFileNotFound
    \/ MainLoadStart
    \/ LoadFile
    \/ SortSessions
    \/ MergeSkipSummary
    \/ MergeSkipSeen
    \/ MergeKeep
    \/ MergeNextSession
    \/ MergeReturn
    \/ MainExtractTurns
    \/ SegmentUserText
    \/ SegmentUserNoText
    \/ SegmentAssistant
    \/ SegmentFinish
    \/ MainNoTurns
    \/ MainConvertTurns
    \/ PagesTurnStart
    \/ PageUserText
    \/ PageUserNoText
    \/ PageAssistantText
    \/ PageAssistantTool
    \/ PagesTurnFinish
    \/ PagesReturn
    \/ MainEnsureDir
    \/ MainWriteBookToml
    \/ MainWriteSummary
    \/ MapMessage
    \/ MapNextTurn
    \/ MapReturn
    \/ MainWritePages

SpecMain == InitMain /\ [][NextMain]_vars

\* ------------------------------------------------------------------------
\* Properties of loadAndMergeSessionFiles and main (checked under SpecMain)
\* ------------------------------------------------------------------------

\* The identity key of a record: the uuid of a user or assistant record,
\* the messageId of a snapshot, 0 for a record without one.
IdentityKey(e) ==
    CASE e.type \in {"user", "assistant"} -> e.uuid
      [] e.type = "file-history-snapshot" -> e.messageId
      [] OTHER -> 0

\* The records of the sources, source after source.
RECURSIVE SourceRecords(_)
SourceRecords(ss) ==
    IF ss = <<>> THEN <<>> ELSE Head(ss).entries \o SourceRecords(Tail(ss))

\* The merge loop has finished.
MergeDone ==
    pc \notin {"args", "load", "merge"} /\ Len(loadedSessions) = Len(inputFiles)
        /\ inputFiles # <<>>

\* C13: the merged stream holds no two records with the same identity key;
\* its keys are the keys of the records of the sources, and the record it
\* holds for a key is the first record with that key in the order of the
\* sorted sources.
C13_MergedKeysAreDistinct ==
    /\ \A i, j \in 1..Len(merged) :
          (i < j /\ IdentityKey(merged[i]) # 0) =>
              IdentityKey(merged[i]) # IdentityKey(merged[j])
    /\ MergeDone =>
          LET all == SourceRecords(loadedSessions) IN
          /\ {IdentityKey(merged[i]) : i \in 1..Len(merged)} \ {0}
                = {IdentityKey(all[i]) : i \in
                      {x \in 1..Len(all) : all[x].type # "summary"}} \ {0}
          /\ \A i \in 1..Len(merged) :
                IdentityKey(merged[i]) # 0 =>
                    \E x \in 1..Len(all) :
                        /\ all[x] = merged[i]
                        /\ \A y \in 1..(x - 1) :
                              IdentityKey(all[y]) # IdentityKey(merged[i])

C13_Witness ==
    /\ pc = "merged"
    /\ Len(loadedSessions) = 2
    /\ Len(loadedSessions[1].entries) = 2
    /\ Len(loadedSessions[2].entries) = 1
    /\ loadedSessions[1].entries[1].type = "file-history-snapshot"
    /\ IdentityKey(loadedSessions[1].entries[2]) = IdentityKey(loadedSessions[2].entries[1])
    /\ loadedSessions[2].entries[1].type = "assistant"
    /\ Len(merged) = 2
    /\ merged[2].origin = <<loadedSessions[1].file, 2>>

\* The sources are sorted: the sort has run.
SessionsSorted == pc \notin {"args", "load"} /\ Len(loadedSessions) = Len(inputFiles)

\* C14: after the sort the sources without a timestamp come before all
\* sources with one, the sources with a timestamp are in ascending order of
\* their first timestamp, and sources that tie (equal first timestamps, or
\* no timestamp) are in the order in which the files were given.
C14_SourcesSortedStable ==
    SessionsSorted =>
        \A i, j \in 1..Len(loadedSessions) :
            i < j =>
                LET a == loadedSessions[i]
                    b == loadedSessions[j]
                IN  /\ ~(Truthy(a.firstTimestamp) /\ ~Truthy(b.firstTimestamp))
                    /\ a.firstTimestamp <= b.firstTimestamp
                    /\ a.firstTimestamp = b.firstTimestamp => a.file < b.file

\* The user and assistant records of es are in non-decreasing order of
\* their timestamps.
Chronological(es) ==
    \A i, j \in 1..Len(es) :
        ( /\ i < j
          /\ es[i].type \in {"user", "assistant"}
          /\ es[j].type \in {"user", "assistant"} ) =>
              es[i].timestamp <= es[j].timestamp

\* C15: when every source lists its user and assistant records in
\* non-decreasing order of their timestamps, so does the merged stream,
\* in whatever order the files were given.
C15_MergedIsChronological ==
    ( /\ MergeDone
      /\ \A s \in 1..Len(loadedSessions) : Chronological(loadedSessions[s].entries) ) =>
          Chronological(merged)

\* C16: no summary marker is in the merged stream or among the records the
\* segmenter is given, whether one file or several are merged, and the set
\* of seen keys holds the keys of the merged records and nothing else.
C16_SummaryMarkersDropped ==
    /\ \A i \in 1..Len(merged) : merged[i].type # "summary"
    /\ \A i \in 1..Len(entries) : entries[i].type # "summary"
    /\ seenUuids = {IdentityKey(merged[i]) : i \in 1..Len(merged)} \ {0}

C16_Witness ==
    /\ pc = "segmented"
    /\ Len(inputFiles) = 1
    /\ Len(loadedSessions[1].entries) = 3
    /\ loadedSessions[1].entries[1].type = "summary"
    /\ loadedSessions[1].entries[2].type = "user"
    /\ loadedSessions[1].entries[3].type = "assistant"
    /\ loadedSessions[1].entries[1].leafUuid = loadedSessions[1].entries[3].uuid
    /\ Len(entries) = 2
    /\ seenUuids = {1, 2}

\* ------------------------------------------------------------------------
\* Calling extractConversationTurns, convertTurnsToPages and
\* buildToolUseMap a second time on the same argument
\* ------------------------------------------------------------------------

InitTwice == Init \/ InitPages \/ InitToolMap

\* The caller keeps the result and calls extractConversationTurns again.
SegmentAgain ==
    /\ pc = "segmented"
    /\ firstResult = Null
    /\ firstResult' = Option(turns)
    /\ pc' = "segment"
    /\ messages' = SelectSeq(entries, LAMBDA e : isUserMessage(e) \/ isAssistantMessage(e))
    /\ msgPos' = 1
    /\ currentTurn' = Null
    /\ turnIndex' = 1
    /\ turns' = <<>>
    /\ UNCHANGED <<entries, pageVars, mapVars, parseVars, mergeVars, mainVars,
                   callArg, callRet>>

\* The caller keeps the result and calls convertTurnsToPages again.
PagesAgain ==
    /\ pc = "paged"
    /\ firstResult = Null
    /\ firstResult' = Option(result)
    /\ pc' = "page_turns"
    /\ result' = <<>>
    /\ turnPos' = 1
    /\ UNCHANGED <<segVars, pturns, pmsgPos, pages, pageIndex, currentToolPage,
                   currentInteraction, mapVars, parseVars, mergeVars, mainVars,
                   callArg, callRet>>

\* The caller keeps the result and calls buildToolUseMap again.
MapAgain ==
    /\ pc = "mapped"
    /\ firstResult = Null
    /\ firstResult' = Option(toolUseMap)
    /\ pc' = "map_turns"
    /\ toolUseMap' = <<>>
    /\ mapTurnPos' = 1
    /\ mapMsgPos' = 1
    /\ UNCHANGED <<segVars, pageVars, parseVars, mergeVars, mainVars, callArg, callRet>>

NextTwice ==
    \/ NextSegment
    \/ NextPages
    \/ NextToolMap
    \/ SegmentAgain
    \/ PagesAgain
    \/ MapAgain

SpecTwice == InitTwice /\ [][NextTwice]_vars

\* The value the call at hand has returned.
Returned ==
    CASE pc = "segmented" -> turns
      [] pc = "paged" -> result
      [] pc = "mapped" -> toolUseMap

\* C17: a second call of extractConversationTurns, convertTurnsToPages or
\* buildToolUseMap on the same argument returns what the first call
\* returned, and no step of a call changes the records or the turns it was
\* given.
C17_SecondCallReturnsTheSame ==
    /\ []( (pc \in {"segmented", "paged", "mapped"} /\ firstResult # Null) =>
              Returned = firstResult[1] )
    /\ [][ pc' \notin {"input", "turns_input", "map_input"} =>
              (entries' = entries /\ pturns' = pturns) ]_vars

C17_Witness ==
    /\ pc = "paged"
    /\ firstResult # Null
    /\ Len(result) = 2
    /\ Len(result[1].pages) = 1
    /\ result[1].pages[1].type = "tool"
    /\ Len(result[1].pages[1].interactions[1].toolResults) = 2
    /\ Len(result[2].pages) = 1
    /\ result[2].pages[1].type = "text"
    /\ result[2].pages[1].pageIndex = 1

\* The text holds a line that is not blank and does not decode.
HasUndecodableLine(text) ==
    \E k \in 1..Len(SplitLines(text)) :
        LET trimmed == Trim(SplitLines(text)[k]) IN
        trimmed # <<>> /\ JSONParse(trimmed) = Null

\* C18: when a line of an input file does not decode, loadSessionFile
\* returns no records for that file, main never gets past the loading loop,
\* creates no directory and writes no file, and when it has ended it has
\* ended in failure.
C18_DecodeFailureAbortsBeforeOutput ==
    \A f \in 1..Len(inputFiles) :
        HasUndecodableLine(inputFiles[f].text) =>
            /\ loadSessionFile(inputFiles[f].text) = Null
            /\ pc \in {"args", "load", "exited"}
            /\ Len(loadedSessions) < f
            /\ written = <<>>
            /\ ~dirCreated
            /\ pc = "exited" => exitCode = Option(1)

C18_Witness ==
    /\ pc = "exited"
    /\ exitCode = Option(1)
    /\ Len(inputFiles) = 2
    /\ HasUndecodableLine(inputFiles[2].text)
    /\ LineCount(inputFiles[2].text) = 2
    /\ Len(loadedSessions) = 1
    /\ Len(loadedSessions[1].entries) = 1
    /\ loadedSessions[1].entries[1].type = "user"
    /\ written = <<>>

\* ------------------------------------------------------------------------
\* Properties of parseSessionFile (checked under SpecParse)
\* ------------------------------------------------------------------------

\* The lines of the text that are not blank, trimmed, in file order.
RECURSIVE TrimmedNonBlank(_)
TrimmedNonBlank(lines) ==
    IF lines = <<>> THEN <<>>
    ELSE (IF Trim(Head(lines)) = <<>> THEN <<>> ELSE <<Trim(Head(lines))>>)
         \o TrimmedNonBlank(Tail(lines))

\* C19: however the reader cuts the file into chunks, a parse that ends
\* normally has yielded the decoded record of every non-blank line of the
\* file, one per line and in file order, and nothing for the blank lines; a
\* parse that ends in a throw has met a non-blank line that does not decode
\* and has yielded the records of the lines before it.
C19_OneRecordPerNonBlankLine ==
    LET nb == TrimmedNonBlank(SplitLines(fileText)) IN
    /\ pc = "parsed" =>
          /\ Len(yielded) = Len(nb)
          /\ \A k \in 1..Len(nb) : JSONParse(nb[k]) = Option(yielded[k])
    /\ pc = "parse_threw" =>
          /\ Len(yielded) < Len(nb)
          /\ \A k \in 1..Len(yielded) : JSONParse(nb[k]) = Option(yielded[k])
          /\ JSONParse(nb[Len(yielded) + 1]) = Null

\* A blank line, then a record on a last line without a newline.
C19_Witness ==
    /\ pc = "parsed"
    /\ fileText = <<" ", "\n", "{", "u", "}">>
    /\ yielded = <<EntryOfLetter("u")>>
    /\ buffer = <<"{", "u", "}">>

\* main has called extractConversationTurns and the call has returned.
TurnsExtracted ==
    /\ inputFiles # <<>>
    /\ Len(loadedSessions) = Len(inputFiles)
    /\ pc \notin {"args", "load", "merge", "merged", "segment"}

\* C20: when extractConversationTurns returns no turn, main goes on to
\* nothing but its exit with code 1: it does not call convertTurnsToPages,
\* does not create the output directory and writes no file.
C20_ZeroTurnsIsFatalBeforeOutput ==
    (TurnsExtracted /\ turns = <<>>) =>
        /\ pc \in {"segmented", "exited"}
        /\ pc = "exited" => exitCode = Option(1)
        /\ ~dirCreated
        /\ written = <<>>
        /\ result = <<>>

C20_Witness ==
    /\ pc = "exited"
    /\ exitCode = Option(1)
    /\ TurnsExtracted
    /\ Len(entries) = 2
    /\ entries[1].type = "assistant"
    /\ entries[2].type = "user"
    /\ turns = <<>>
    /\ written = <<>>
    /\ ~dirCreated

\* ------------------------------------------------------------------------
\* renderer.ts: getTurnTitle called on its own
\* ------------------------------------------------------------------------

\* Most messages of the turn handed to getTurnTitle.
MaxTitleMsgs == 2

Repeat(c, n) == [i \in 1..n |-> c]

\* The messages of the turn handed to getTurnTitle.
TitleMessages ==
    { UserMessage(0, StringContent(t)) : t \in
        { <<"a">>,
          <<" ">>,
          <<"\n", "#">>,
          <<"#", "[", "a", "]", "*", "_", Backquote, "\n", "b">>,
          <<" ", "#">> \o Repeat("a", 50) \o <<"b">>,
          Repeat("a", 49) \o <<"\n", "b">> } }
    \cup { UserMessage(0, BlockContent(bs)) : bs \in
             { <<ToolResultBlock(1)>>,
               <<ToolResultBlock(1), TextBlock(<<"a">>)>>,
               <<TextBlock(<<" ">>), TextBlock(<<"a">>)>> } }
    \cup { AssistantMessage(0, <<TextBlock(<<"a">>)>>) }

InitPure ==
    /\ pc = "call_input"
    /\ entries = <<>>
    /\ messages = <<>>
    /\ msgPos = 1
    /\ currentTurn = Null
    /\ turnIndex = 1
    /\ turns = <<>>
    /\ pturns = <<>>
    /\ turnPos = 1
    /\ pmsgPos = 1
    /\ pages = <<>>
    /\ pageIndex = 1
    /\ currentToolPage = Null
    /\ currentInteraction = Null
    /\ result = <<>>
    /\ InitRest

pureFrame == <<segVars, pageVars, mapVars, parseVars, mergeVars, mainVars,
               firstResult>>

\* The caller makes a turn with an index of one or two digits ...
TitleNewTurn ==
    /\ pc = "call_input"
    /\ callArg = <<>>
    /\ \E i \in {1, 12} : callArg' = [index |-> i, messages |-> <<>>]
    /\ UNCHANGED <<pc, callRet, pureFrame>>

\* ... and puts one more message in it.
TitleAddMessage ==
    /\ pc = "call_input"
    /\ callArg # <<>>
    /\ Len(callArg.messages) < MaxTitleMsgs
    /\ \E m \in TitleMessages :
          callArg' = [callArg EXCEPT !.messages = Append(@, m)]
    /\ UNCHANGED <<pc, callRet, pureFrame>>

\* The call of getTurnTitle
CallGetTurnTitle ==
    /\ pc = "call_input"
    /\ callArg # <<>>
    /\ callRet' = Option(getTurnTitle(callArg))
    /\ pc' = "title_done"
    /\ UNCHANGED <<callArg, pureFrame>>

NextTitle ==
    \/ TitleNewTurn
    \/ TitleAddMessage
    \/ CallGetTurnTitle

SpecTitle == InitPure /\ [][NextTitle]_vars

\* The text of a user message as the extraction rule gives it: the string,
\* or the text of the first text block, or nothing.
RuleText(m) ==
    IF m.content.isString THEN m.content.text
    ELSE LET ks == {k \in 1..Len(m.content.blocks) : m.content.blocks[k].type = "text"}
         IN  IF ks = {} THEN <<>>
             ELSE m.content.blocks[CHOOSE k \in ks : \A x \in ks : k <= x].text

\* The text with its newlines made spaces and the six characters removed.
Sanitized(text) ==
    SelectSeq([i \in 1..Len(text) |-> IF text[i] = "\n" THEN " " ELSE text[i]],
              LAMBDA c : c \notin {"#", "[", "]", Backquote, "*", "_"})

\* C21: the title of a turn is never empty.  With the text of the first
\* user message of the turn whose text is not blank (searching all
\* messages), sanitized and trimmed, the title is the first 50 characters
\* of it, and it is "Turn" and the index when there is no such message or
\* nothing is left of the text.
C21_TitleFromFirstUserText ==
    pc = "title_done" =>
        LET ms == callArg.messages
            found == {k \in 1..Len(ms) :
                         ms[k].type = "user" /\ Trim(RuleText(ms[k])) # <<>>}
            text == IF found = {} THEN <<>>
                    ELSE RuleText(ms[CHOOSE k \in found : \A x \in found : k <= x])
            clean == Trim(Sanitized(text))
            title == callRet[1]
        IN  /\ title # <<>>
            /\ IF clean = <<>>
               THEN title = <<"T", "u", "r", "n", " ">> \o ToDecimal(callArg.index)
               ELSE /\ Len(title) = (IF Len(clean) < 50 THEN Len(clean) ELSE 50)
                    /\ \A i \in 1..Len(title) : title[i] = clean[i]

\* The second message gives the title, cut to 50 characters.
C21_Witness ==
    /\ pc = "title_done"
    /\ callArg.index = 12
    /\ callArg.messages =
          << UserMessage(0, BlockContent(<<TextBlock(<<" ">>), TextBlock(<<"a">>)>>)),
             UserMessage(0, StringContent(<<" ", "#">> \o Repeat("a", 50) \o <<"b">>)) >>
    /\ callRet = Option(Repeat("a", 50))

\* ------------------------------------------------------------------------
\* renderer.ts: renderToolResult, called for one tool result
\* ------------------------------------------------------------------------
\* A tool_use block as the correlation index holds it: name and
\* input.file_path (absent, or a path).
ToolUseWithInput(i, n, fp) ==
    [type |-> "tool_use", text |-> <<>>, id |-> i, name |-> n, file_path |-> fp]

\* parseCliArgs: the three options renderToolResult reads.
ParseOptions(hideToolResultsFlag, showReadResultsFlag, collapseToolsFlag) ==
    [hideToolResults |-> hideToolResultsFlag,
     hideReadResults |-> ~showReadResultsFlag,
     collapseTools |-> collapseToolsFlag]

\* What renderToolResult returns: null, or the markdown of one of the four
\* renderers, written as the renderer and what it was given.
Rendered(via, block, filePath, collapse) ==
    Option([via |-> via, block |-> block, filePath |-> filePath, collapse |-> collapse])

\* toolUse?.name || "<fallback>"
ToolNameOr(map, block, fallback) ==
    IF block.id \in DOMAIN map /\ map[block.id].name # ""
    THEN map[block.id].name
    ELSE fallback

\* toolUse?.input?.file_path as string || "<fallback>"
FilePathOr(map, block, fallback) ==
    IF block.id \in DOMAIN map /\ map[block.id].file_path # Null
                               /\ map[block.id].file_path[1] # <<>>
    THEN map[block.id].file_path[1]
    ELSE fallback

\* renderToolResult with a missing invocation taken as a Read
renderToolResultDefaultsToRead(block, map, options) ==
    LET toolName == ToolNameOr(map, block, "Read")
    IN  IF options.hideReadResults /\ toolName = "Read"
        THEN Rendered("read_omitted", Null, FilePathOr(map, block,
                 <<"(", "u", "n", "k", "n", "o", "w", "n", " ", "f", "i", "l", "e", ")">>), FALSE)
        ELSE IF options.hideToolResults THEN Null
        ELSE IF toolName = "Task" THEN Rendered("task", Option(block), <<>>, FALSE)
        ELSE IF toolName = "Edit"
        THEN Rendered("edit", Option(block), FilePathOr(map, block, <<>>),
                      options.collapseTools)
        ELSE Rendered("generic", Option(block), <<>>, options.collapseTools)

renderToolResult(block, map, options) ==
    LET toolName == ToolNameOr(map, block, "Unknown")
    IN  IF options.hideReadResults /\ toolName = "Read"
        THEN Rendered("read_omitted", Null, FilePathOr(map, block,
                 <<"(", "u", "n", "k", "n", "o", "w", "n", " ", "f", "i", "l", "e", ")">>), FALSE)
        ELSE IF options.hideToolResults THEN Null
        ELSE IF toolName = "Task" THEN Rendered("task", Option(block), <<>>, FALSE)
        ELSE IF toolName = "Edit"
        THEN Rendered("edit", Option(block), FilePathOr(map, block, <<>>),
                      options.collapseTools)
        ELSE Rendered("generic", Option(block), <<>>, options.collapseTools)

\* The caller has the options of the command line and one tool result.
ResultSetOptions ==
    /\ pc = "call_input"
    /\ callArg = <<>>
    /\ \E h \in BOOLEAN, s \in BOOLEAN, c \in BOOLEAN, i \in {1, 2} :
          callArg' = Option([block |-> ToolResultBlock(i), map |-> <<>>,
                             options |-> ParseOptions(h, s, c)])
    /\ UNCHANGED <<pc, callRet, pureFrame>>

\* The correlation index holds one more invocation.
ResultAddToolUse ==
    /\ pc = "call_input"
    /\ callArg # <<>>
    /\ \E i \in {1, 2} \ DOMAIN callArg[1].map,
          n \in {"Read", "Task", "Edit", "Bash", ""},
          fp \in {Null, Option(<<>>), Option(<<"f">>)} :
          callArg' = Option([callArg[1] EXCEPT
                        !.map = MapSet(callArg[1].map, ToolUseWithInput(i, n, fp))])
    /\ UNCHANGED <<pc, callRet, pureFrame>>

CallRenderToolResult ==
    /\ pc = "call_input"
    /\ callArg # <<>>
    /\ callRet' = Option(renderToolResult(callArg[1].block, callArg[1].map,
                                          callArg[1].options))
    /\ pc' = "result_done"
    /\ UNCHANGED <<callArg, pureFrame>>

NextToolResult ==
    \/ ResultSetOptions
    \/ ResultAddToolUse
    \/ CallRenderToolResult

SpecToolResult == InitPure /\ [][NextToolResult]_vars

\* The call was for a result whose invocation the index does not hold.
InvocationAbsent ==
    /\ pc = "result_done"
    /\ callArg[1].block.id \notin DOMAIN callArg[1].map

\* C22 (as stated): a tool result whose invocation id is absent from the
\* correlation index is rendered by the generic renderer.
C22_AbsentInvocationRenderedGenerically ==
    InvocationAbsent =>
        /\ callRet[1] # Null
        /\ callRet[1][1].via = "generic"

\* C22 (amended): rendering a tool result whose invocation id is absent from
\* the correlation index returns: nothing when tool results are hidden, and
\* otherwise the output of the generic renderer for that result; never the
\* output of the Read, Task or Edit renderers.
C22_AbsentInvocationGenericOrHidden ==
    InvocationAbsent =>
        /\ callRet # <<>>
        /\ IF callArg[1].options.hideToolResults
           THEN callRet[1] = Null
           ELSE callRet[1] = Rendered("generic", Option(callArg[1].block), <<>>,
                                      callArg[1].options.collapseTools)

\* Results of Read are abbreviated, the index holds another invocation, and
\* the result of the missing one is rendered generically.
C22_Witness ==
    /\ InvocationAbsent
    /\ callArg[1].block.id = 2
    /\ 1 \in DOMAIN callArg[1].map
    /\ callArg[1].map[1].name = "Read"
    /\ callArg[1].options.hideReadResults
    /\ ~callArg[1].options.hideToolResults
    /\ callRet[1] # Null
    /\ callRet[1][1].via = "generic"

\* C23: with tool results hidden, rendering a tool result returns nothing,
\* whatever the tool and whatever the option for the results of Read.
C23_HiddenResultsProduceNoOutput ==
    (pc = "result_done" /\ callArg[1].options.hideToolResults) =>
        callRet[1] = Null

\* ------------------------------------------------------------------------
\* renderer.ts: getBackquoteCount
\* ------------------------------------------------------------------------
MaxContent == 5

\* content.match(/`+/g): the lengths of the maximal runs of backquotes, from
\* left to right (run is the length of the run the scan is in).
RECURSIVE BackquoteMatches(_, _)
BackquoteMatches(content, run) ==
    IF content = <<>> THEN (IF run > 0 THEN <<run>> ELSE <<>>)
    ELSE IF Head(content) = Backquote THEN BackquoteMatches(Tail(content), run + 1)
    ELSE (IF run > 0 THEN <<run>> ELSE <<>>) \o BackquoteMatches(Tail(content), 0)

\* Math.max of a non-empty list of numbers
RECURSIVE MathMaxOf(_)
MathMaxOf(ns) ==
    IF Len(ns) = 1 THEN ns[1]
    ELSE LET rest == MathMaxOf(Tail(ns)) IN IF ns[1] >= rest THEN ns[1] ELSE rest

\* getBackquoteCount without the one backquote more than the longest run
getBackquoteCountNoMargin(content, isMarkdown) ==
    LET minCount == IF isMarkdown THEN 4 ELSE 3
        matches == BackquoteMatches(content, 0)
    IN  IF matches = <<>> THEN minCount
        ELSE MathMaxOf(<<minCount, MathMaxOf(matches)>>)

getBackquoteCount(content, isMarkdown) ==
    LET minCount == IF isMarkdown THEN 4 ELSE 3
        matches == BackquoteMatches(content, 0)
    IN  IF matches = <<>> THEN minCount
        ELSE MathMaxOf(<<minCount, MathMaxOf(matches) + 1>>)

\* The caller has the content of a file, of markdown or not.
FenceNewContent ==
    /\ pc = "call_input"
    /\ callArg = <<>>
    /\ \E md \in BOOLEAN : callArg' = Option([content |-> <<>>, isMarkdown |-> md])
    /\ UNCHANGED <<pc, callRet, pureFrame>>

FenceAddChar ==
    /\ pc = "call_input"
    /\ callArg # <<>>
    /\ Len(callArg[1].content) < MaxContent
    /\ \E c \in {Backquote, "a", "\n"} :
          callArg' = Option([callArg[1] EXCEPT !.content = Append(@, c)])
    /\ UNCHANGED <<pc, callRet, pureFrame>>

CallGetBackquoteCount ==
    /\ pc = "call_input"
    /\ callArg # <<>>
    /\ callRet' = Option(getBackquoteCount(callArg[1].content, callArg[1].isMarkdown))
    /\ pc' = "fence_done"
    /\ UNCHANGED <<callArg, pureFrame>>

NextFence ==
    \/ FenceNewContent
    \/ FenceAddChar
    \/ CallGetBackquoteCount

SpecFence == InitPure /\ [][NextFence]_vars

\* n consecutive backquotes occur in the content.
HasBackquoteRun(content, n) ==
    \E i \in 1..(Len(content) - n + 1) :
        \A k \in i..(i + n - 1) : content[k] = Backquote

\* n can fence the content: at least 3 (4 for markdown) and longer than
\* every run of backquotes in the content.
FenceFits(content, isMarkdown, n) ==
    /\ n >= (IF isMarkdown THEN 4 ELSE 3)
    /\ \A r \in 1..Len(content) : HasBackquoteRun(content, r) => n > r

\* C24: the fence length returned is at least 3 (4 for markdown), greater
\* than the longest run of backquotes in the content, and the smallest such
\* number.
C24_FenceIsSmallestThatFits ==
    pc = "fence_done" =>
        /\ FenceFits(callArg[1].content, callArg[1].isMarkdown, callRet[1])
        /\ \A n \in 0..(callRet[1] - 1) :
              ~FenceFits(callArg[1].content, callArg[1].isMarkdown, n)

\* Markdown holding a run of four backquotes: the fence is five.
C24_Witness ==
    /\ pc = "fence_done"
    /\ callArg[1].isMarkdown
    /\ callArg[1].content = <<Backquote, Backquote, Backquote, Backquote, "a">>
    /\ callRet = Option(5)

\* ------------------------------------------------------------------------
\* converter.ts: getSessionMetadata
\* ------------------------------------------------------------------------
MaxMetaEntries == 4

\* A user or assistant record with the two fields the scan reads; session
\* ids and timestamps are numbers, 0 standing for null.
MetaMessage(ty, sid, ts) == [type |-> ty, sessionId |-> sid, timestamp |-> ts]

\* One pass of the loop of getSessionMetadata with endTime kept once set
MetadataStepEndKept(acc, entry) ==
    IF entry.type = "user" \/ entry.type = "assistant"
    THEN [sessionId |-> IF ~Truthy(acc.sessionId) /\ Truthy(entry.sessionId)
                        THEN entry.sessionId ELSE acc.sessionId,
          startTime |-> IF ~Truthy(acc.startTime) /\ Truthy(entry.timestamp)
                        THEN entry.timestamp ELSE acc.startTime,
          endTime |-> IF ~Truthy(acc.endTime) /\ Truthy(entry.timestamp)
                      THEN entry.timestamp ELSE acc.endTime]
    ELSE acc

\* One pass of the loop of getSessionMetadata
MetadataStep(acc, entry) ==
    IF entry.type = "user" \/ entry.type = "assistant"
    THEN [sessionId |-> IF ~Truthy(acc.sessionId) /\ Truthy(entry.sessionId)
                        THEN entry.sessionId ELSE acc.sessionId,
          startTime |-> IF ~Truthy(acc.startTime) /\ Truthy(entry.timestamp)
                        THEN entry.timestamp ELSE acc.startTime,
          endTime |-> IF Truthy(entry.timestamp)
                      THEN entry.timestamp ELSE acc.endTime]
    ELSE acc

\* The loop, written from its last pass back to the three nulls it starts
\* with.
RECURSIVE getSessionMetadata(_)
getSessionMetadata(es) ==
    IF es = <<>> THEN [sessionId |-> 0, startTime |-> 0, endTime |-> 0]
    ELSE MetadataStep(getSessionMetadata(SubSeq(es, 1, Len(es) - 1)), es[Len(es)])

\* The caller has the merged list of records, callArg itself: a user or
\* assistant record, or a snapshot or summary marker, which has neither
\* of the two fields.
MetaAddEntry ==
    /\ pc = "call_input"
    /\ Len(callArg) < MaxMetaEntries
    /\ \E e \in { MetaMessage(ty, sid, ts) :
                      ty \in {"user", "assistant"}, sid \in {1, 2}, ts \in {1, 2, 3} }
                \cup { [type |-> "file-history-snapshot"], [type |-> "summary"] } :
          callArg' = Append(callArg, e)
    /\ UNCHANGED <<pc, callRet, pureFrame>>

CallGetSessionMetadata ==
    /\ pc = "call_input"
    /\ callRet' = Option(getSessionMetadata(callArg))
    /\ pc' = "meta_done"
    /\ UNCHANGED <<callArg, pureFrame>>

NextMetadata ==
    \/ MetaAddEntry
    \/ CallGetSessionMetadata

SpecMetadata == InitPure /\ [][NextMetadata]_vars

\* The positions of the user and assistant records of a list.
ConversationalPositions(es) ==
    {k \in 1..Len(es) : es[k].type \in {"user", "assistant"}}

\* C25: the metadata of a list of records is the session id and the
\* timestamp of its first user/assistant record and the timestamp of its
\* last user/assistant record, markers being ignored; the three values are
\* null when the list has no user/assistant record.
C25_MetadataOfFirstAndLastRecord ==
    pc = "meta_done" =>
        LET es == callArg
            ua == ConversationalPositions(es)
            first == CHOOSE k \in ua : \A x \in ua : k <= x
            last == CHOOSE k \in ua : \A x \in ua : x <= k
        IN  IF ua = {}
            THEN callRet[1] = [sessionId |-> 0, startTime |-> 0, endTime |-> 0]
            ELSE callRet[1] = [sessionId |-> es[first].sessionId,
                               startTime |-> es[first].timestamp,
                               endTime |-> es[last].timestamp]

\* A summary marker first and a snapshot marker last; the records between
\* them are of two sessions and not in the order of their timestamps.
C25_Witness ==
    /\ pc = "meta_done"
    /\ Len(callArg) = 4
    /\ callArg[1] = [type |-> "summary"]
    /\ callArg[2] = MetaMessage("user", 2, 3)
    /\ callArg[3] = MetaMessage("assistant", 1, 1)
    /\ callArg[4] = [type |-> "file-history-snapshot"]
    /\ callRet = Option([sessionId |-> 2, startTime |-> 3, endTime |-> 1])

\* The page indices of a page list.
PageIndicesOf(pgs) == {pgs[k].pageIndex : k \in 1..Len(pgs)}

\* The page list holds one page for each of the indices 1..n, and every
\* tool page of it has an interaction.
EmitsEachIndexOnce(pgs, n) ==
    /\ Len(pgs) = n
    /\ PageIndicesOf(pgs) = 1..n
    /\ \A k \in 1..Len(pgs) : pgs[k].type = "tool" => Len(pgs[k].interactions) >= 1

\* C27: between two messages of a turn a tool page is open exactly when an
\* interaction is open; the pages pushed so far and the open tool page hold
\* each page index consumed so far exactly once; when the turn is finished
\* its page list holds every consumed index exactly once, and every tool
\* page pushed has at least one interaction.
C27_ToolPageOpenIffInteractionOpen ==
    /\ pc = "page_messages" =>
          /\ (currentToolPage # Null) <=> (currentInteraction # Null)
          /\ IF currentToolPage = Null
             THEN EmitsEachIndexOnce(pages, pageIndex - 1)
             ELSE /\ EmitsEachIndexOnce(pages, pageIndex - 2)
                  /\ currentToolPage[1].pageIndex = pageIndex - 1
    /\ (pc = "page_turns" /\ turnPos > 1) =>
          /\ currentToolPage = Null
          /\ currentInteraction = Null
          /\ EmitsEachIndexOnce(result[turnPos - 1].pages, pageIndex - 1)

\* A tool page was opened with index 1 and closed by a text page; the turn
\* is finished and holds both.
C27_Witness ==
    /\ pc = "page_turns"
    /\ turnPos = 2
    /\ pageIndex = 3
    /\ Len(result[1].pages) = 2
    /\ result[1].pages[1].type = "tool"
    /\ Len(result[1].pages[1].interactions) = 1
    /\ result[1].pages[2].type = "text"

\* The assistant records of a page list, read page by page and, in a tool
\* page, interaction by interaction.
RECURSIVE AssistantsOfPages(_)
AssistantsOfPages(pgs) ==
    IF pgs = <<>> THEN <<>>
    ELSE (IF Head(pgs).type = "text" THEN <<Head(pgs).assistant>>
          ELSE IF Head(pgs).type = "tool"
          THEN [k \in 1..Len(Head(pgs).interactions) |-> Head(pgs).interactions[k].toolUse]
          ELSE <<>>)
         \o AssistantsOfPages(Tail(pgs))

\* C28: for every finished turn, each assistant record of the turn is the
\* assistant of one text page or the invocation of one interaction, of one
\* page in all, and the pages read in order give the assistant records of
\* the turn in their order.
C28_AssistantRecordsPagedOnceInOrder ==
    \A t \in 1..Len(result) :
        LET ms == pturns[t].messages
            pgs == result[t].pages
        IN  /\ \A k \in 1..Len(ms) :
                  ms[k].type = "assistant" =>
                      Cardinality(TextPagesOf(pgs, ms[k]))
                          + Cardinality(InteractionsOf(pgs, ms[k])) = 1
            /\ AssistantsOfPages(pgs) = SelectSeq(ms, LAMBDA m : m.type = "assistant")

\* Two invocations share a tool page and a text page follows them.
C28_Witness ==
    /\ Len(result) = 1
    /\ Len(pturns[1].messages) = 3
    /\ Len(result[1].pages) = 2
    /\ result[1].pages[1].type = "tool"
    /\ Len(result[1].pages[1].interactions) = 2
    /\ result[1].pages[2].type = "text"
    /\ result[1].pages[2].assistant = pturns[1].messages[3]

\* C29: when the merge has finished, for every user or assistant record of
\* the sources the merged stream holds exactly one user or assistant record
\* with its uuid.
C29_NoConversationalRecordLost ==
    MergeDone =>
        LET all == SourceRecords(loadedSessions) IN
        \A x \in 1..Len(all) :
            all[x].type \in {"user", "assistant"} =>
                Cardinality({i \in 1..Len(merged) :
                                /\ merged[i].type \in {"user", "assistant"}
                                /\ merged[i].uuid = all[x].uuid}) = 1

\* ------------------------------------------------------------------------
\* main.ts: convertTurnsToPages(extractConversationTurns(entries))
\* ------------------------------------------------------------------------
NextPipeline ==
    \/ NextSegment
    \/ MainNoTurns
    \/ MainConvertTurns
    \/ PagesTurnStart
    \/ PageUserText
    \/ PageUserNoText
    \/ PageAssistantText
    \/ PageAssistantTool
    \/ PagesTurnFinish
    \/ PagesReturn

SpecPipeline == Init /\ [][NextPipeline]_vars

\* C26: for every turn of extractConversationTurns whose pages are made, the
\* first page is a user page with pageIndex 1 holding the first message of
\* the turn, and the title of the turn is the title that message alone gives.
C26_FirstPageIsUserPageOfFirstMessage ==
    \A t \in 1..Len(result) :
        /\ result[t].pages # <<>>
        /\ result[t].pages[1] = UserPage(turns[t].index, 1, turns[t].messages[1])
        /\ result[t].title = getTurnTitle([index |-> turns[t].index,
                                           messages |-> <<turns[t].messages[1]>>])

\* The pages of all turns, turn after turn.
RECURSIVE AllPages(_)
AllPages(tps) ==
    IF tps = <<>> THEN <<>> ELSE Head(tps).pages \o AllPages(Tail(tps))

\* C30: the file names of the pages made from the turns of
\* extractConversationTurns are pairwise distinct, and a turn has at most
\* one user page.
C30_PageFilenamesDistinct ==
    /\ LET ps == AllPages(result) IN
       \A i, j \in 1..Len(ps) :
           i # j => getPageFilename(ps[i]) # getPageFilename(ps[j])
    /\ \A t \in 1..Len(result) :
           Cardinality({k \in 1..Len(result[t].pages) :
                           result[t].pages[k].type = "user"}) <= 1

\* Two turns, each with the page of its user and one page more.
C30_Witness ==
    /\ pc = "paged"
    /\ Len(result) = 2
    /\ Len(result[1].pages) = 2
    /\ Len(result[2].pages) = 2
    /\ result[1].pages[1].type = "user"
    /\ result[1].pages[2].type = "tool"
    /\ result[2].pages[1].type = "user"
    /\ result[2].pages[2].type = "text"

====
